---- MODULE Spec2Model ----
(***************************************************************************)
(* Sunaba front end: the tokeniser (source text -> line-tokens) and the    *)
(* indentation-aware parser (line-tokens -> Program).                      *)
(*                                                                         *)
(* Strings are sequences of one-character strings (UTF-16 code units), so  *)
(* that slicing and comparing text is computed and not assumed.  A thrown  *)
(* exception is a returned record of type "ParseError" or "TypeError" that *)
(* every caller propagates.  JavaScript indices are kept 0-based; Slice    *)
(* and At convert to the 1-based sequences of TLA+.                        *)
(***************************************************************************)
EXTENDS Integers, Sequences, FiniteSets, TLC

VARIABLES
    exprTokens,     \* parseExpression: the tokens it is applied to
    exprResult,     \* parseExpression: what it returned or threw
    body,           \* parse: the Program body (tree of statements)
    statements,     \* parse: statement indent stack, frames are references into body
    minIndent,      \* parse: min value allowed for indent on next line
    maxIndent,      \* parse: max value allowed for indent on next line
    lastLineToken,  \* parse: the last line-token that was processed without error
    lineToken,      \* parse: the line-token of the current iteration of the line loop
    consumed,       \* parse: how many line-tokens the line loop has taken
    outcome,        \* parse: "running", or the returned Program / thrown error
    lineNo,         \* tokenise: iterateLine's counter (its local variable column)
    indents,        \* tokenise: indent stack of seen space counts
    multiLineCommentCount, \* tokenise: block comment depth
    lineTokens,     \* tokenise: the line-tokens produced so far
    line,           \* tokenise: the source line of the current iteration
    tokOutcome,     \* tokenise: "running", or the returned list / thrown error
    bytecode        \* emit: the bytes it returned, Null before the first call

vars == <<exprTokens, exprResult, body, statements, minIndent, maxIndent,
          lastLineToken, lineToken, consumed, outcome, lineNo, indents,
          multiLineCommentCount, lineTokens, line, tokOutcome, bytecode>>

exprVars == <<exprTokens, exprResult>>
parseVars == <<body, statements, minIndent, maxIndent, lastLineToken, lineToken,
               consumed, outcome>>
tokVars == <<lineNo, indents, multiLineCommentCount, lineTokens, line, tokOutcome>>
emitVars == <<bytecode>>

----------------------------------------------------------------------------
(* JavaScript helpers *)

Null == [type |-> "null"]
Undefined == [type |-> "undefined"]
\* a variable of type number | null holds Null or Number(n)
Number(n) == [type |-> "number", value |-> n]

Min(a, b) == IF a < b THEN a ELSE b
Max(a, b) == IF a > b THEN a ELSE b

\* Array.prototype.slice(from, to) for 0 <= from: 0-based, end exclusive, clamped
Slice(s, from, to) == SubSeq(s, from + 1, Min(to, Len(s)))
SliceFrom(s, from) == SubSeq(s, from + 1, Len(s))
\* s[i], 0-based; undefined outside the array
At(s, i) == IF i >= 0 /\ i < Len(s) THEN s[i + 1] ELSE Undefined

\* throw new ParseError(`${column} ${row}: ${msg}`); row = 0 when the message has none
ParseError(column, row, msg) ==
    [type |-> "ParseError", column |-> column, row |-> row, msg |-> msg]
\* a property read or method call on undefined
TypeError == [type |-> "TypeError"]

IsThrown(x) == x.type \in {"ParseError", "TypeError"}

----------------------------------------------------------------------------
(* Tokens *)

Tok(type, value, row) == [type |-> type, value |-> value, row |-> row]

----------------------------------------------------------------------------
(* AST nodes *)

Identifier(name) == [type |-> "Identifier", name |-> name]
NumericLiteral(value) == [type |-> "NumericLiteral", value |-> value]
UnaryExpression(operator, argument) ==
    [type |-> "UnaryExpression", operator |-> operator, argument |-> argument]
BinaryExpression(operator, left, right) ==
    [type |-> "BinaryExpression", operator |-> operator, left |-> left, right |-> right]
MemberExpression(target, property) ==
    [type |-> "MemberExpression", target |-> target, property |-> property]
CallExpression(callee, arguments) ==
    [type |-> "CallExpression", callee |-> callee, arguments |-> arguments]

\* ExpressionState
UnaryState(operator) == [type |-> "unary", operator |-> operator]
BinaryState(left) == [type |-> "binary", left |-> left]

----------------------------------------------------------------------------
(* tokenise: lines and code points *)

\* code units outside ASCII: one BMP character, and a surrogate pair
WideChar == "U+3042"
HighSurrogate == "U+D83D"
LowSurrogate == "U+DE00"

Digits == {"0", "1", "2", "3", "4", "5", "6", "7", "8", "9"}
LowerCase == {"a", "b", "c", "d", "e", "f", "g", "h", "i", "j", "k", "l", "m",
              "n", "o", "p", "q", "r", "s", "t", "u", "v", "w", "x", "y", "z"}
UpperCase == {"A", "B", "C", "D", "E", "F", "G", "H", "I", "J", "K", "L", "M",
              "N", "O", "P", "Q", "R", "S", "T", "U", "V", "W", "X", "Y", "Z"}
\* code >= 0x100
AboveLatin1 == {WideChar, HighSurrogate, LowSurrogate}
\* what \s matches
WhiteSpace == {" ", "\t"}

\* the sentinel code point "EOL"
EOL == <<"E", "O", "L">>

\* String.prototype.slice(from, to), negative indices counted from the end
TextSlice(text, from, to) ==
    LET start == IF from < 0 THEN Max(Len(text) + from, 0) ELSE Min(from, Len(text))
        end == IF to < 0 THEN Max(Len(text) + to, 0) ELSE Min(to, Len(text))
    IN SubSeq(text, start + 1, end)

\* raw.match(/^\s*/)[0]
RECURSIVE LeadingWhiteSpace(_)
LeadingWhiteSpace(raw) ==
    IF Len(raw) > 0 /\ Head(raw) \in WhiteSpace
    THEN <<Head(raw)>> \o LeadingWhiteSpace(Tail(raw))
    ELSE <<>>

\* for (const char of ...) { if (char === "\t") space += 8; else ++space; }
RECURSIVE SpaceOf(_)
SpaceOf(chars) ==
    IF Len(chars) = 0 THEN 0
    ELSE (IF Head(chars) = "\t" THEN 8 ELSE 1) + SpaceOf(Tail(chars))

RECURSIVE TrimEnd(_)
TrimEnd(raw) ==
    IF Len(raw) > 0 /\ raw[Len(raw)] \in WhiteSpace
    THEN TrimEnd(SubSeq(raw, 1, Len(raw) - 1))
    ELSE raw

\* raw.trim()
Trim(raw) == TrimEnd(SubSeq(raw, Len(LeadingWhiteSpace(raw)) + 1, Len(raw)))

LineOfFirstColumn(raw, counter) ==
    [raw |-> raw, column |-> 0, space |-> SpaceOf(LeadingWhiteSpace(raw)),
     text |-> Trim(raw)]

\* what iterateLine yields for a line that is not empty
LineOf(raw, counter) ==
    [raw |-> raw, column |-> counter, space |-> SpaceOf(LeadingWhiteSpace(raw)),
     text |-> Trim(raw)]

\* iterateCodePoint: the code points of text from row on, then the sentinel
RECURSIVE iterateCodePoint(_, _)
iterateCodePoint(text, row) ==
    IF row >= Len(text) THEN <<[row |-> row, codePoint |-> EOL]>>
    ELSE LET unit == At(text, row)
             paired == /\ unit = HighSurrogate
                       /\ row + 1 < Len(text)
                       /\ At(text, row + 1) = LowSurrogate
             codePoint == IF paired THEN <<unit, LowSurrogate>> ELSE <<unit>>
         IN <<[row |-> row, codePoint |-> codePoint]>>
                \o iterateCodePoint(text, row + Len(codePoint))

isNumberCodePoint(codePoint) ==
    IF codePoint = EOL THEN FALSE ELSE codePoint[1] \in Digits

isIdentifierCodePoint(codePoint) ==
    IF codePoint = EOL THEN FALSE
    ELSE IF codePoint \in {<<"@">>, <<"$">>, <<"?">>, <<"_">>, <<"'">>} THEN TRUE
    ELSE codePoint[1] \in LowerCase \cup UpperCase \cup Digits \cup AboveLatin1

----------------------------------------------------------------------------
(* tokenise: the state machine over the code points of one line *)

\* tokens.push({ type, value, row: startRow + 1 })
Emit(ls, type, value, startRow) ==
    [ls EXCEPT !.tokens = Append(ls.tokens, Tok(type, value, startRow + 1)),
               !.state = "null"]

WordTokenAlwaysIdentifier(ls, word) == Emit(ls, "IdentifierToken", word, ls.startRow)

\* case "identifier": the word is complete
WordToken(ls, word) ==
    Emit(ls,
         CASE word = <<"m", "e", "m", "o", "r", "y">> -> "MemoryToken"
           [] word = <<"i", "f">> -> "IfToken"
           [] word = <<"w", "h", "i", "l", "e">> -> "WhileToken"
           [] word = <<"d", "e", "f">> -> "DefToken"
           [] word = <<"c", "o", "n", "s", "t">> -> "ConstToken"
           [] OTHER -> "IdentifierToken",
         IF word \in {<<"m", "e", "m", "o", "r", "y">>, <<"i", "f">>,
                      <<"w", "h", "i", "l", "e">>, <<"d", "e", "f">>,
                      <<"c", "o", "n", "s", "t">>}
         THEN <<>> ELSE word,
         ls.startRow)

\* if (multiLineCommentCount > 0) { ... continue loop; }
InComment(ls, text, row) ==
    LET operator == TextSlice(text, row - 1, row + 1) IN
    IF operator = <<"/", "*">> THEN [ls EXCEPT !.count = ls.count + 1]
    ELSE IF operator = <<"*", "/">> THEN [ls EXCEPT !.count = ls.count - 1]
    ELSE ls

\* what follows the switch: a code point met in the null state
Begin(ls, row, codePoint) ==
    CASE codePoint = <<"#">> -> [ls EXCEPT !.broke = TRUE]
      [] codePoint = <<"-">> -> [ls EXCEPT !.state = "minus", !.startRow = row]
      [] codePoint \in {<<"<">>, <<">">>, <<"!">>}
            -> [ls EXCEPT !.state = "angle_or_exclamation", !.startRow = row]
      [] codePoint = <<"/">> -> [ls EXCEPT !.state = "slash", !.startRow = row]
      [] codePoint \in {<<"+">>, <<"=">>, <<"*">>} -> Emit(ls, "OperatorToken", codePoint, row)
      [] codePoint = <<",">> -> Emit(ls, "SeparatorToken", <<>>, row)
      [] codePoint = <<"(">> -> Emit(ls, "ParentheseStartToken", <<>>, row)
      [] codePoint = <<")">> -> Emit(ls, "ParentheseEndToken", <<>>, row)
      [] codePoint = <<"[">> -> Emit(ls, "BracketStartToken", <<>>, row)
      [] codePoint = <<"]">> -> Emit(ls, "BracketEndToken", <<>>, row)
      [] OTHER ->
            IF isNumberCodePoint(codePoint)
            THEN [ls EXCEPT !.state = "literal", !.startRow = row]
            ELSE IF isIdentifierCodePoint(codePoint)
            THEN [ls EXCEPT !.state = "identifier", !.startRow = row]
            ELSE ls

\* the body of loop, with the code point that ends the minus state dropped
CodePointStepLosesCharacter(ls, text, counter, row, codePoint) ==
    IF ls.count > 0 THEN InComment(ls, text, row)
    ELSE CASE ls.state = "identifier" ->
                IF isIdentifierCodePoint(codePoint) THEN ls
                ELSE Begin(WordToken(ls, TextSlice(text, ls.startRow, row)), row, codePoint)
           [] ls.state = "literal" ->
                IF isNumberCodePoint(codePoint) THEN ls
                ELSE Begin(Emit(ls, "NumericLiteralToken",
                                TextSlice(text, ls.startRow, row), ls.startRow),
                           row, codePoint)
           [] ls.state = "minus" ->
                IF codePoint = <<">">> THEN Emit(ls, "AssignmentToken", <<>>, ls.startRow)
                ELSE Emit(ls, "OperatorToken", <<"-">>, ls.startRow)
           [] ls.state = "angle_or_exclamation" ->
                IF codePoint = <<"=">>
                THEN Emit(ls, "OperatorToken", TextSlice(text, ls.startRow, row + 1),
                          ls.startRow)
                ELSE LET operator == TextSlice(text, ls.startRow, row) IN
                     IF operator = <<"!">>
                     THEN [ls EXCEPT !.thrown =
                              ParseError(counter + 1, ls.startRow + 1,
                                         "There should be only '=' after the '!'")]
                     ELSE Begin(Emit(ls, "OperatorToken", operator, ls.startRow),
                                row, codePoint)
           [] ls.state = "slash" ->
                IF codePoint = <<"*">> THEN [ls EXCEPT !.count = 1, !.state = "null"]
                ELSE Begin(Emit(ls, "OperatorToken", <<"/">>, ls.startRow), row, codePoint)
           [] ls.state = "null" -> Begin(ls, row, codePoint)

\* the body of loop: for (const { row, codePoint } of iterateCodePoint(text))
CodePointStep(ls, text, counter, row, codePoint) ==
    IF ls.count > 0 THEN InComment(ls, text, row)
    ELSE CASE ls.state = "identifier" ->
                IF isIdentifierCodePoint(codePoint) THEN ls
                ELSE Begin(WordToken(ls, TextSlice(text, ls.startRow, row)), row, codePoint)
           [] ls.state = "literal" ->
                IF isNumberCodePoint(codePoint) THEN ls
                ELSE Begin(Emit(ls, "NumericLiteralToken",
                                TextSlice(text, ls.startRow, row), ls.startRow),
                           row, codePoint)
           [] ls.state = "minus" ->
                IF codePoint = <<">">> THEN Emit(ls, "AssignmentToken", <<>>, ls.startRow)
                ELSE Begin(Emit(ls, "OperatorToken", <<"-">>, ls.startRow), row, codePoint)
           [] ls.state = "angle_or_exclamation" ->
                IF codePoint = <<"=">>
                THEN Emit(ls, "OperatorToken", TextSlice(text, ls.startRow, row + 1),
                          ls.startRow)
                ELSE LET operator == TextSlice(text, ls.startRow, row) IN
                     IF operator = <<"!">>
                     THEN [ls EXCEPT !.thrown =
                              ParseError(counter + 1, ls.startRow + 1,
                                         "There should be only '=' after the '!'")]
                     ELSE Begin(Emit(ls, "OperatorToken", operator, ls.startRow),
                                row, codePoint)
           [] ls.state = "slash" ->
                IF codePoint = <<"*">> THEN [ls EXCEPT !.count = 1, !.state = "null"]
                ELSE Begin(Emit(ls, "OperatorToken", <<"/">>, ls.startRow), row, codePoint)
           [] ls.state = "null" -> Begin(ls, row, codePoint)

\* the loop over the code points, left by break and by a throw
RECURSIVE CodePointLoop(_, _, _, _)
CodePointLoop(ls, text, counter, codePoints) ==
    IF Len(codePoints) = 0 \/ ls.broke \/ IsThrown(ls.thrown) THEN ls
    ELSE CodePointLoop(CodePointStep(ls, text, counter, Head(codePoints).row,
                                     Head(codePoints).codePoint),
                       text, counter, Tail(codePoints))

\* const tokens = []; let state = null; let startRow = 0; loop: ...
TokensOfLine(text, counter, count) ==
    CodePointLoop([tokens |-> <<>>, state |-> "null", startRow |-> 0, count |-> count,
                   broke |-> FALSE, thrown |-> Null],
                  text, counter, iterateCodePoint(text, 0))

----------------------------------------------------------------------------
(* tokenise: the indent stack and the line loop *)

\* indents.indexOf(space)
RECURSIVE IndexOf(_, _, _)
IndexOf(list, value, index) ==
    IF index >= Len(list) THEN -1
    ELSE IF At(list, index) = value THEN index
    ELSE IndexOf(list, value, index + 1)

UpdateIndentsNoTruncate(stack, space, counter) ==
    IF IndexOf(stack, space, 0) = -1 /\ stack[Len(stack)] > space
    THEN ParseError(counter + 1, 0, "Invalid indent space")
    ELSE [type |-> "Array", items |-> Append(stack, space)]

\* const indentIndex = indents.indexOf(space); ... the new stack, or the throw
UpdateIndents(stack, space, counter) ==
    LET indentIndex == IndexOf(stack, space, 0) IN
    IF indentIndex = -1
    THEN IF stack[Len(stack)] > space
         THEN ParseError(counter + 1, 0, "Invalid indent space")
         ELSE [type |-> "Array", items |-> Append(stack, space)]
    ELSE [type |-> "Array", items |-> SubSeq(stack, 1, indentIndex + 1)]

\* the line loop with the indent stack left alone by a line without tokens
TokeniseLineSkippingEmpty(raw) ==
    /\ tokOutcome = Null
    /\ lineNo' = lineNo + 1
    /\ line' = LineOf(raw, lineNo)
    /\ IF raw = <<>>
       THEN UNCHANGED <<indents, multiLineCommentCount, lineTokens, tokOutcome>>
       ELSE LET yielded == LineOf(raw, lineNo)
                ls == TokensOfLine(yielded.text, yielded.column, multiLineCommentCount)
                updated == UpdateIndents(indents, yielded.space, yielded.column)
            IN IF IsThrown(ls.thrown)
               THEN /\ tokOutcome' = ls.thrown
                    /\ UNCHANGED <<indents, multiLineCommentCount, lineTokens>>
               ELSE /\ multiLineCommentCount' = ls.count
                    /\ IF IsThrown(updated) /\ Len(ls.tokens) # 0
                       THEN /\ tokOutcome' = updated
                            /\ UNCHANGED <<indents, lineTokens>>
                       ELSE /\ indents' = IF Len(ls.tokens) # 0 THEN updated.items
                                          ELSE indents
                            /\ lineTokens' =
                                  IF Len(ls.tokens) # 0
                                  THEN Append(lineTokens,
                                              [column |-> yielded.column + 1,
                                               indent |-> Len(updated.items) - 1,
                                               tokens |-> ls.tokens])
                                  ELSE lineTokens
                            /\ tokOutcome' = Null

\* iterateLine takes the next line of the source; one that is not empty is
\* yielded, and the body of the line loop of tokenise runs on it
TokeniseLine(raw) ==
    /\ tokOutcome = Null
    /\ lineNo' = lineNo + 1
    /\ line' = LineOf(raw, lineNo)
    /\ IF raw = <<>>
       THEN UNCHANGED <<indents, multiLineCommentCount, lineTokens, tokOutcome>>
       ELSE LET yielded == LineOf(raw, lineNo)
                ls == TokensOfLine(yielded.text, yielded.column, multiLineCommentCount)
                updated == UpdateIndents(indents, yielded.space, yielded.column)
            IN IF IsThrown(ls.thrown)
               THEN /\ tokOutcome' = ls.thrown
                    /\ UNCHANGED <<indents, multiLineCommentCount, lineTokens>>
               ELSE /\ multiLineCommentCount' = ls.count
                    /\ IF IsThrown(updated)
                       THEN /\ tokOutcome' = updated
                            /\ UNCHANGED <<indents, lineTokens>>
                       ELSE /\ indents' = updated.items
                            /\ lineTokens' =
                                  IF Len(ls.tokens) # 0
                                  THEN Append(lineTokens,
                                              [column |-> yielded.column + 1,
                                               indent |-> Len(updated.items) - 1,
                                               tokens |-> ls.tokens])
                                  ELSE lineTokens
                            /\ tokOutcome' = Null

\* the source is exhausted: the check after the loop, and the return
TokeniseEnd ==
    /\ tokOutcome = Null
    /\ tokOutcome' =
          IF multiLineCommentCount # 0
          THEN IF Len(lineTokens) = 0 THEN TypeError
               ELSE ParseError(lineTokens[Len(lineTokens)].column, 0,
                               "The multi-line comment is not closed")
          ELSE [type |-> "Array", items |-> lineTokens]
    /\ UNCHANGED <<lineNo, indents, multiLineCommentCount, lineTokens, line>>

\* const lineTokens = []; const indents = [0]; let multiLineCommentCount = 0;
TokeniseStart ==
    /\ lineNo = 0
    /\ indents = <<0>>
    /\ multiLineCommentCount = 0
    /\ lineTokens = <<>>
    /\ line = Null
    /\ tokOutcome = Null

----------------------------------------------------------------------------
(* parseExpression *)

DigitValue(c) ==
    CASE c = "0" -> 0 [] c = "1" -> 1 [] c = "2" -> 2 [] c = "3" -> 3 [] c = "4" -> 4
      [] c = "5" -> 5 [] c = "6" -> 6 [] c = "7" -> 7 [] c = "8" -> 8 [] c = "9" -> 9

\* A JavaScript number that holds an integer, kept as sign and magnitude
\* with the magnitude in two limbs (high * Radix + low), so that the values
\* beyond 32 bits that parseInt returns are not cut short.
Radix == 65536
JSNumber(negative, high, low) == [negative |-> negative, high |-> high, low |-> low]

\* front * 10 + digit, with the carry from the low limb to the high one
AppendDigit(front, digit) ==
    JSNumber(FALSE,
             front.high * 10 + (front.low * 10 + digit) \div Radix,
             (front.low * 10 + digit) % Radix)

\* Number.parseInt(value, 10) of a run of decimal digits
RECURSIVE parseInt(_)
parseInt(value) ==
    IF Len(value) = 0 THEN JSNumber(FALSE, 0, 0)
    ELSE AppendDigit(parseInt(SubSeq(value, 1, Len(value) - 1)),
                     DigitValue(value[Len(value)]))

\* -raw
Negate(number) == [number EXCEPT !.negative = ~number.negative]

Int32Max == 2147483647
Int32Min == -2147483647 - 1

OutOfRangeIgnoringSign(value) == value.high >= Radix \div 2

\* value !== (value | 0): the magnitude is beyond 2^31 - 1, or 2^31 when negative
OutOfRange(value) ==
    IF value.negative
    THEN value.high > Radix \div 2 \/ (value.high = Radix \div 2 /\ value.low > 0)
    ELSE value.high >= Radix \div 2

\* the value of a number that passed the range check, as an integer
IntegerOf(number) ==
    IF number.negative THEN (-number.high) * Radix - number.low
    ELSE number.high * Radix + number.low

\* state?.type === "unary" ? { type: "UnaryExpression", ... } : expression
UnaryWrap(state, expression) ==
    IF state.type = "unary" THEN UnaryExpression(state.operator, expression) ELSE expression

\* the scan for the bracket that closes tokens[1]; rest is tokens.slice(1)
RECURSIVE BracketEndIndex(_, _, _)
BracketEndIndex(rest, index, count) ==
    IF index >= Len(rest) THEN -1
    ELSE LET token == At(rest, index) IN
         IF token.type = "BracketStartToken" THEN BracketEndIndex(rest, index + 1, count + 1)
         ELSE IF token.type = "BracketEndToken"
              THEN IF count - 1 = 0 THEN index + 1
                   ELSE BracketEndIndex(rest, index + 1, count - 1)
              ELSE BracketEndIndex(rest, index + 1, count)

\* the scan for the parenthese that closes tokens[1], collecting the argument
\* slots; rest is tokens.slice(1)
RECURSIVE ArgumentScan(_, _, _, _, _, _)
ArgumentScan(tokens, rest, index, count, start, argumentTokens) ==
    IF index >= Len(rest)
    THEN [parentheseEndIndex |-> -1, argumentTokens |-> argumentTokens]
    ELSE LET token == At(rest, index) IN
         IF token.type = "ParentheseStartToken"
         THEN ArgumentScan(tokens, rest, index + 1, count + 1, start, argumentTokens)
         ELSE IF token.type = "ParentheseEndToken"
         THEN IF count - 1 = 0
              THEN [parentheseEndIndex |-> index + 1,
                    argumentTokens |->
                        IF start + 2 # index + 1
                        THEN Append(argumentTokens, Slice(tokens, start + 2, index + 1))
                        ELSE argumentTokens]
              ELSE ArgumentScan(tokens, rest, index + 1, count - 1, start, argumentTokens)
         ELSE IF token.type = "SeparatorToken" /\ count = 1
         THEN ArgumentScan(tokens, rest, index + 1, count, index,
                           Append(argumentTokens, Slice(tokens, start + 2, index + 1)))
         ELSE ArgumentScan(tokens, rest, index + 1, count, start, argumentTokens)

\* the scan for the parenthese that closes tokens[0]
RECURSIVE ParentheseEndIndex(_, _, _)
ParentheseEndIndex(tokens, index, count) ==
    IF index >= Len(tokens) THEN -1
    ELSE LET token == At(tokens, index) IN
         IF token.type = "ParentheseStartToken"
         THEN ParentheseEndIndex(tokens, index + 1, count + 1)
         ELSE IF token.type = "ParentheseEndToken"
              THEN IF count - 1 = 0 THEN index
                   ELSE ParentheseEndIndex(tokens, index + 1, count - 1)
              ELSE ParentheseEndIndex(tokens, index + 1, count)

\* one rotation that hands the old root the wrong child of the new one
LeftRotateWrongChild(root) ==
    IF root.right.type = "BinaryExpression"
    THEN LET newRoot == root.right
             oldRoot == [root EXCEPT !.right = newRoot.right]
         IN [newRoot EXCEPT !.left = oldRoot]
    ELSE root

\* while (root.right.type === "BinaryExpression") { ... }
RECURSIVE LeftRotate(_)
LeftRotate(root) ==
    IF root.right.type = "BinaryExpression"
    THEN LET newRoot == root.right
             oldRoot == [root EXCEPT !.right = newRoot.left]
         IN LeftRotate([newRoot EXCEPT !.left = oldRoot])
    ELSE root

RECURSIVE parseExpression(_, _, _)

\* the rest of an operand: return it, or go on in the binary state
ParseRemains(column, remains, expression) ==
    IF Len(remains) = 0 THEN expression
    ELSE parseExpression(column, remains, BinaryState(expression))

\* list.map((tokens) => parseExpression(column, tokens)): the first throw ends it
RECURSIVE ParseEach(_, _, _)
ParseEach(column, list, done) ==
    IF Len(list) = 0 THEN [type |-> "Array", items |-> done]
    ELSE LET expression == parseExpression(column, Head(list), Null) IN
         IF IsThrown(expression) THEN expression
         ELSE ParseEach(column, Tail(list), Append(done, expression))

\* identifier[ ... ] and memory[ ... ]
ParseMember(column, tokens, state, target) ==
    LET bracketEndIndex == BracketEndIndex(SliceFrom(tokens, 1), 0, 0)
        propertyTokens == Slice(tokens, 2, bracketEndIndex)
    IN IF bracketEndIndex = -1
       THEN ParseError(column, At(tokens, 1).row, "The bracket is not closed")
       ELSE IF Len(propertyTokens) = 0
       THEN ParseError(column, At(tokens, 1).row, "The contents of the bracket are empty")
       ELSE LET property == parseExpression(column, propertyTokens, Null) IN
            IF IsThrown(property) THEN property
            ELSE ParseRemains(column, SliceFrom(tokens, bracketEndIndex + 1),
                              UnaryWrap(state, MemberExpression(target, property)))

\* identifier( ... )
ParseCall(column, tokens, state, identifier) ==
    LET scan == ArgumentScan(tokens, SliceFrom(tokens, 1), 0, 0, 0, <<>>) IN
    IF scan.parentheseEndIndex = -1
    THEN ParseError(column, At(tokens, 1).row, "The parenthese is not closed")
    ELSE LET arguments == ParseEach(column, scan.argumentTokens, <<>>) IN
         IF IsThrown(arguments) THEN arguments
         ELSE ParseRemains(column, SliceFrom(tokens, scan.parentheseEndIndex + 1),
                           UnaryWrap(state, CallExpression(identifier, arguments.items)))

ParseIdentifier(column, tokens, state) ==
    LET identifier == Identifier(tokens[1].value) IN
    IF Len(tokens) = 1 THEN UnaryWrap(state, identifier)
    ELSE IF At(tokens, 1).type = "BracketStartToken"
    THEN ParseMember(column, tokens, state, identifier)
    ELSE IF At(tokens, 1).type = "ParentheseStartToken"
    THEN ParseCall(column, tokens, state, identifier)
    ELSE parseExpression(column, SliceFrom(tokens, 1),
                         BinaryState(UnaryWrap(state, identifier)))

ParseMemory(column, tokens, state) ==
    IF At(tokens, 1).type # "BracketStartToken"
    THEN ParseError(column,
                    IF At(tokens, 1) = Undefined THEN tokens[1].row + 6 ELSE At(tokens, 1).row,
                    "It must be a bracket after memory keyword")
    ELSE ParseMember(column, tokens, state, Identifier(<<"m", "e", "m", "o", "r", "y">>))

ParseNumericLiteral(column, tokens, state) ==
    LET raw == parseInt(tokens[1].value)
        value == IF state.type = "unary" /\ state.operator = <<"-">> THEN Negate(raw) ELSE raw
    IN IF OutOfRange(value)
       THEN ParseError(column, tokens[1].row, "Out of range integer value")
       ELSE ParseRemains(column, SliceFrom(tokens, 1), NumericLiteral(IntegerOf(value)))

ParsePrefixOperatorAlwaysMinus(column, tokens) ==
    LET operator == tokens[1].value IN
    IF operator # <<"+">> /\ operator # <<"-">>
    THEN ParseError(column, tokens[1].row, "Invalid operator")
    ELSE parseExpression(column, SliceFrom(tokens, 1), UnaryState(<<"-">>))

ParsePrefixOperator(column, tokens) ==
    LET operator == tokens[1].value IN
    IF operator # <<"+">> /\ operator # <<"-">>
    THEN ParseError(column, tokens[1].row, "Invalid operator")
    ELSE parseExpression(column, SliceFrom(tokens, 1), UnaryState(operator))

ParseParenthese(column, tokens, state) ==
    LET parentheseEndIndex == ParentheseEndIndex(tokens, 0, 0)
        parentheseTokens == Slice(tokens, 1, parentheseEndIndex)
    IN IF parentheseEndIndex = -1
       THEN ParseError(column, tokens[1].row, "The parenthese is not closed")
       ELSE IF Len(parentheseTokens) = 0
       THEN ParseError(column, tokens[1].row, "The parenthese of the bracket are empty")
       ELSE LET parentheseExpression == parseExpression(column, parentheseTokens, Null) IN
            IF IsThrown(parentheseExpression) THEN parentheseExpression
            ELSE ParseRemains(column, SliceFrom(tokens, parentheseEndIndex + 1),
                              UnaryWrap(state, parentheseExpression))

\* the binary state: an operator, then the rest parsed afresh, then the rotation
ParseBinary(column, tokens, state) ==
    IF tokens[1].type # "OperatorToken"
    THEN ParseError(column, tokens[1].row, "Syntax Error")
    ELSE LET right == parseExpression(column, SliceFrom(tokens, 1), Null) IN
         IF IsThrown(right) THEN right
         ELSE LeftRotate(BinaryExpression(tokens[1].value, state.left, right))

parseExpression(column, tokens, state) ==
    IF Len(tokens) = 0 THEN ParseError(column, 0, "Syntax Error")
    ELSE LET token == tokens[1] IN
         IF token.type \in {"IfToken", "WhileToken", "DefToken", "ConstToken", "AssignmentToken"}
         THEN ParseError(column, token.row,
                         "It contains words that must not be included in the expression")
         ELSE IF state.type \in {"null", "unary"}
         THEN CASE token.type \in {"BracketStartToken", "BracketEndToken",
                                   "ParentheseEndToken", "SeparatorToken"}
                     -> ParseError(column, token.row, "Syntax Error")
                [] token.type = "IdentifierToken" -> ParseIdentifier(column, tokens, state)
                [] token.type = "MemoryToken" -> ParseMemory(column, tokens, state)
                [] token.type = "NumericLiteralToken" -> ParseNumericLiteral(column, tokens, state)
                [] token.type = "OperatorToken" -> ParsePrefixOperator(column, tokens)
                [] token.type = "ParentheseStartToken" -> ParseParenthese(column, tokens, state)
         ELSE ParseBinary(column, tokens, state)

----------------------------------------------------------------------------
(* parse: the line loop *)

AssignmentStatement(left, right) ==
    [type |-> "AssignmentStatement", left |-> left, right |-> right]
ExpressionStatement(expression) ==
    [type |-> "ExpressionStatement", expression |-> expression]
\* IfStatement and WhileStatement: type is the only difference
BlockStatement(type, test) == [type |-> type, test |-> test, body |-> <<>>]
ConstantStatement(left, right) ==
    [type |-> "ConstantStatement", left |-> left, right |-> right]
FunctionDeclaration(id, params) ==
    [type |-> "FunctionDeclaration", id |-> id, params |-> params, body |-> <<>>]
Program(list) == [type |-> "Program", body |-> list]

\* A frame of the statements stack is a reference to a body array of the tree:
\* the path of statement indices that leads to it from the Program body.
Frame(path) == [type |-> "frame", path |-> path]

\* the array a frame refers to
RECURSIVE FrameBody(_, _)
FrameBody(list, path) ==
    IF path = <<>> THEN list ELSE FrameBody(list[Head(path)].body, Tail(path))

\* array.push(statement) on the array a frame refers to
RECURSIVE PushAt(_, _, _)
PushAt(list, path, statement) ==
    IF path = <<>> THEN Append(list, statement)
    ELSE LET owner == list[Head(path)] IN
         [list EXCEPT ![Head(path)] =
             [owner EXCEPT !.body = PushAt(owner.body, Tail(path), statement)]]

\* statements.length = n without the drop: only adds empty slots
SetLengthNoTruncate(stack, n) ==
    IF n <= Len(stack) THEN stack
    ELSE stack \o [i \in 1..(n - Len(stack)) |-> Undefined]

\* statements.length = n: drops frames, or adds empty slots
SetLength(stack, n) ==
    IF n <= Len(stack) THEN SubSeq(stack, 1, n)
    ELSE stack \o [i \in 1..(n - Len(stack)) |-> Undefined]

\* The state of the loop body while one line is handled.
Throw(st, error) == [st EXCEPT !.thrown = error]

\* statements[statements.length - 1].push(statement)
PushTop(st, statement) ==
    LET top == st.statements[Len(st.statements)] IN
    IF top = Undefined THEN Throw(st, TypeError)
    ELSE [st EXCEPT !.body = PushAt(st.body, top.path, statement)]

\* statements[0].push(statement)
PushRoot(st, statement) ==
    [st EXCEPT !.body = PushAt(st.body, st.statements[1].path, statement)]

\* const body = []; <push of the statement that owns it>; statements.push(body)
\* frame is the one the owning statement has just been pushed to
OpenBody(st, frame) ==
    LET pushedTo == FrameBody(st.body, frame.path) IN
    [st EXCEPT !.statements = Append(st.statements,
                                     Frame(frame.path \o <<Len(pushedTo)>>))]

\* tokens.findIndex(({ type }) => type === "AssignmentToken")
RECURSIVE FindAssignment(_, _)
FindAssignment(tokens, index) ==
    IF index >= Len(tokens) THEN -1
    ELSE IF At(tokens, index).type = "AssignmentToken" THEN index
    ELSE FindAssignment(tokens, index + 1)

AssignmentCaseAnyLeft(st, column, tokens, index) ==
    LET leftTokens == Slice(tokens, 0, index)
        rightTokens == SliceFrom(tokens, index + 1)
    IN IF Len(leftTokens) = 0
       THEN Throw(st, ParseError(column, At(tokens, index).row,
                                 "The left side of the assignment operator is empty"))
       ELSE LET left == parseExpression(column, leftTokens, Null) IN
            IF IsThrown(left) THEN Throw(st, left)
            ELSE IF Len(rightTokens) = 0
            THEN Throw(st, ParseError(column, At(tokens, index).row,
                          "The right side of the assignment operator is empty"))
            ELSE LET right == parseExpression(column, rightTokens, Null) IN
                 IF IsThrown(right) THEN Throw(st, right)
                 ELSE PushTop(st, AssignmentStatement(left, right))

AssignmentCase(st, column, tokens, index) ==
    LET leftTokens == Slice(tokens, 0, index)
        rightTokens == SliceFrom(tokens, index + 1)
    IN IF Len(leftTokens) = 0
       THEN Throw(st, ParseError(column, At(tokens, index).row,
                                 "The left side of the assignment operator is empty"))
       ELSE LET left == parseExpression(column, leftTokens, Null) IN
            IF IsThrown(left) THEN Throw(st, left)
            ELSE IF left.type # "MemberExpression" /\ left.type # "Identifier"
            THEN Throw(st, ParseError(column, leftTokens[1].row,
                          "The left side of the assignment operator is not assignable"))
            ELSE IF Len(rightTokens) = 0
            THEN Throw(st, ParseError(column, At(tokens, index).row,
                          "The right side of the assignment operator is empty"))
            ELSE LET right == parseExpression(column, rightTokens, Null) IN
                 IF IsThrown(right) THEN Throw(st, right)
                 ELSE PushTop(st, AssignmentStatement(left, right))

ExpressionCaseAnyExpression(st, column, tokens) ==
    LET expression == parseExpression(column, tokens, Null) IN
    IF IsThrown(expression) THEN Throw(st, expression)
    ELSE PushTop(st, ExpressionStatement(expression))

ExpressionCase(st, column, tokens) ==
    LET expression == parseExpression(column, tokens, Null) IN
    IF IsThrown(expression) THEN Throw(st, expression)
    ELSE IF expression.type # "CallExpression"
    THEN Throw(st, ParseError(column, 0, "This expression has no effect"))
    ELSE PushTop(st, ExpressionStatement(expression))

\* case "IdentifierToken": case "MemoryToken":
IdentifierCase(st, column, indent, tokens) ==
    LET index == FindAssignment(tokens, 0)
        pushed == IF index # -1 THEN AssignmentCase(st, column, tokens, index)
                  ELSE ExpressionCase(st, column, tokens)
    IN IF IsThrown(pushed.thrown) THEN pushed
       ELSE [pushed EXCEPT !.maxIndent = Number(indent)]

\* case "IfToken": and case "WhileToken":
BlockCase(st, column, indent, tokens, type, noCondition) ==
    LET testTokens == SliceFrom(tokens, 1) IN
    IF Len(testTokens) = 0
    THEN Throw(st, ParseError(column, tokens[1].row + 2, noCondition))
    ELSE LET test == parseExpression(column, testTokens, Null) IN
         IF IsThrown(test) THEN Throw(st, test)
         ELSE LET pushed == PushTop(st, BlockStatement(type, test)) IN
              IF IsThrown(pushed.thrown) THEN pushed
              ELSE [OpenBody(pushed, st.statements[Len(st.statements)])
                       EXCEPT !.minIndent = Number(indent + 1)]

\* indent !== 0 on a const or def line
NotRootScopeNever(indent) == FALSE
NotRootScope(indent) == indent # 0

\* case "ConstToken":
ConstCase(st, column, indent, tokens) ==
    LET identifierToken == At(tokens, 1)
        assignmentToken == At(tokens, 2)
        rightTokens == SliceFrom(tokens, 3)
    IN IF NotRootScope(indent)
       THEN Throw(st, ParseError(column, tokens[1].row,
                     "const keyword must be in the root scope (no indent)"))
       ELSE IF identifierToken = Undefined THEN Throw(st, TypeError)
       ELSE IF identifierToken.type # "IdentifierToken"
       THEN Throw(st, ParseError(column, identifierToken.row,
                     "const keyword must be followed by an identifier"))
       ELSE IF assignmentToken = Undefined THEN Throw(st, TypeError)
       ELSE IF assignmentToken.type # "AssignmentToken"
       THEN Throw(st, ParseError(column, assignmentToken.row, "Invalid const statement"))
       ELSE IF Len(rightTokens) = 0
       THEN Throw(st, ParseError(column, assignmentToken.row,
                     "The right side of the assignment operator is empty"))
       ELSE LET identifier == parseExpression(column, <<identifierToken>>, Null)
                right == parseExpression(column, rightTokens, Null)
            IN IF IsThrown(right) THEN Throw(st, right)
               ELSE [PushRoot(st, ConstantStatement(identifier, right))
                        EXCEPT !.maxIndent = Number(indent)]

\* the scan for the parenthese that closes tokens[2] of a def line, collecting
\* the parameter slots; rest is tokens.slice(2)
RECURSIVE ParameterScan(_, _, _, _, _, _)
ParameterScan(tokens, rest, index, count, start, paramtokens) ==
    IF index >= Len(rest)
    THEN [parentheseEndIndex |-> -1, paramtokens |-> paramtokens]
    ELSE LET token == At(rest, index) IN
         IF token.type = "ParentheseStartToken"
         THEN ParameterScan(tokens, rest, index + 1, count + 1, start, paramtokens)
         ELSE IF token.type = "ParentheseEndToken"
         THEN IF count - 1 = 0
              THEN [parentheseEndIndex |-> index + 2,
                    paramtokens |->
                        IF start + 3 # index + 2
                        THEN Append(paramtokens, Slice(tokens, start + 3, index + 2))
                        ELSE paramtokens]
              ELSE ParameterScan(tokens, rest, index + 1, count - 1, start, paramtokens)
         ELSE IF token.type = "SeparatorToken" /\ count = 1
         THEN ParameterScan(tokens, rest, index + 1, count, index,
                            Append(paramtokens, Slice(tokens, start + 3, index + 2)))
         ELSE ParameterScan(tokens, rest, index + 1, count, start, paramtokens)

\* a def case that takes the whole line for the header
DefCaseWholeLine(st, column, indent, tokens) ==
    LET identifierToken == At(tokens, 1)
        parentheseStartToken == At(tokens, 2)
        scan == ParameterScan(tokens, SliceFrom(tokens, 2), 0, 0, 0, <<>>)
    IN IF NotRootScope(indent)
       THEN Throw(st, ParseError(column, tokens[1].row,
                     "def keyword must be in the root scope (no indent)"))
       ELSE IF identifierToken = Undefined THEN Throw(st, TypeError)
       ELSE IF identifierToken.type # "IdentifierToken"
       THEN Throw(st, ParseError(column, identifierToken.row,
                     "def keyword must be followed by an identifier"))
       ELSE IF parentheseStartToken = Undefined THEN Throw(st, TypeError)
       ELSE IF parentheseStartToken.type # "ParentheseStartToken"
       THEN Throw(st, ParseError(column, parentheseStartToken.row, "Invalid def statement"))
       ELSE IF scan.parentheseEndIndex = -1
       THEN Throw(st, ParseError(column, At(tokens, 1).row, "The parenthese is not closed"))
       ELSE IF scan.parentheseEndIndex + 1 < Len(tokens)
       THEN Throw(st, ParseError(column, 0, "Syntax Error"))
       ELSE LET identifier == parseExpression(column, <<identifierToken>>, Null)
                params == ParseEach(column, scan.paramtokens, <<>>)
            IN IF IsThrown(params) THEN Throw(st, params)
               ELSE IF \E i \in 1..Len(params.items) : params.items[i].type # "Identifier"
               THEN Throw(st, ParseError(column, 0, "Invalid parameters"))
               ELSE [OpenBody(PushRoot(st, FunctionDeclaration(identifier, params.items)),
                              st.statements[1])
                        EXCEPT !.minIndent = Number(indent + 1)]

\* case "DefToken":
DefCase(st, column, indent, tokens) ==
    LET identifierToken == At(tokens, 1)
        parentheseStartToken == At(tokens, 2)
        scan == ParameterScan(tokens, SliceFrom(tokens, 2), 0, 0, 0, <<>>)
    IN IF NotRootScope(indent)
       THEN Throw(st, ParseError(column, tokens[1].row,
                     "def keyword must be in the root scope (no indent)"))
       ELSE IF identifierToken = Undefined THEN Throw(st, TypeError)
       ELSE IF identifierToken.type # "IdentifierToken"
       THEN Throw(st, ParseError(column, identifierToken.row,
                     "def keyword must be followed by an identifier"))
       ELSE IF parentheseStartToken = Undefined THEN Throw(st, TypeError)
       ELSE IF parentheseStartToken.type # "ParentheseStartToken"
       THEN Throw(st, ParseError(column, parentheseStartToken.row, "Invalid def statement"))
       ELSE IF scan.parentheseEndIndex = -1
       THEN Throw(st, ParseError(column, At(tokens, 1).row, "The parenthese is not closed"))
       ELSE LET identifier == parseExpression(column, <<identifierToken>>, Null)
                params == ParseEach(column, scan.paramtokens, <<>>)
            IN IF IsThrown(params) THEN Throw(st, params)
               ELSE IF \E i \in 1..Len(params.items) : params.items[i].type # "Identifier"
               THEN Throw(st, ParseError(column, 0, "Invalid parameters"))
               ELSE [OpenBody(PushRoot(st, FunctionDeclaration(identifier, params.items)),
                              st.statements[1])
                        EXCEPT !.minIndent = Number(indent + 1)]

\* switch (token.type) on the first token of the line
Dispatch(st, column, indent, tokens) ==
    LET token == tokens[1] IN
    CASE token.type \in {"NumericLiteralToken", "OperatorToken", "AssignmentToken",
                         "ParentheseStartToken", "ParentheseEndToken",
                         "BracketStartToken", "BracketEndToken", "SeparatorToken"}
            -> Throw(st, ParseError(column, 0, "Syntax Error"))
      [] token.type \in {"IdentifierToken", "MemoryToken"}
            -> IdentifierCase(st, column, indent, tokens)
      [] token.type = "IfToken"
            -> BlockCase(st, column, indent, tokens, "IfStatement",
                         "There is no condition in the if statement")
      [] token.type = "WhileToken"
            -> BlockCase(st, column, indent, tokens, "WhileStatement",
                         "There is no condition in the while statement")
      [] token.type = "ConstToken" -> ConstCase(st, column, indent, tokens)
      [] token.type = "DefToken" -> DefCase(st, column, indent, tokens)

IndentViolationNoMin(min, max, indent) == max # Null /\ max.value < indent
IndentViolationOffByOne(min, max, indent) ==
    \/ (min # Null /\ min.value > indent)
    \/ (max # Null /\ max.value <= indent)

\* (minIndent !== null && minIndent > indent) || (maxIndent !== null && maxIndent < indent)
IndentViolation(min, max, indent) ==
    \/ (min # Null /\ min.value > indent)
    \/ (max # Null /\ max.value < indent)

\* one iteration of for (const lineToken of lineTokens) { ... }
LoopBody(st, lt) ==
    IF IndentViolation(st.minIndent, st.maxIndent, lt.indent)
    THEN Throw(st, ParseError(lt.column, 0, "Invalid indent space"))
    ELSE Dispatch([st EXCEPT !.minIndent = Null, !.maxIndent = Null,
                             !.statements = SetLength(st.statements, lt.indent + 1)],
                  lt.column, lt.indent, lt.tokens)

\* the variables of parse after one iteration of the loop has run on lt
AfterLine(st, lt) ==
    /\ body' = st.body
    /\ statements' = st.statements
    /\ minIndent' = st.minIndent
    /\ maxIndent' = st.maxIndent
    /\ outcome' = st.thrown
    /\ lastLineToken' = IF IsThrown(st.thrown) THEN lastLineToken ELSE lt

\* the line loop takes the next line-token and runs its body on it
ParseLine(lt) ==
    /\ outcome = Null
    /\ AfterLine(LoopBody([thrown |-> Null, body |-> body, statements |-> statements,
                           minIndent |-> minIndent, maxIndent |-> maxIndent], lt), lt)
    /\ lineToken' = lt
    /\ consumed' = consumed + 1

AfterLoopNoCheck(min, last, list) == Program(list)

\* the check after the loop, and the return
AfterLoop(min, last, list) ==
    IF min # Null /\ last # Null
    THEN ParseError(last.column, 0,
                    "There is no body for the last if or while or def statement")
    ELSE Program(list)

\* the iterable is exhausted
ParseEnd ==
    /\ outcome = Null
    /\ outcome' = AfterLoop(minIndent, lastLineToken, body)
    /\ UNCHANGED <<body, statements, minIndent, maxIndent, lastLineToken, lineToken,
                   consumed>>

\* const body = []; const statements = [body]; ... at the head of parse
ParseStart ==
    /\ body = <<>>
    /\ statements = <<Frame(<<>>)>>
    /\ minIndent = Null
    /\ maxIndent = Null
    /\ lastLineToken = Null
    /\ lineToken = Null
    /\ consumed = 0
    /\ outcome = Null

----------------------------------------------------------------------------
(* Inputs of parseExpression *)

MaxExprLen == 7

IdentifierA == <<"IdentifierToken", <<"a">>>>
IdentifierB == <<"IdentifierToken", <<"b">>>>
NumericOne == <<"NumericLiteralToken", <<"1">>>>
OperatorPlus == <<"OperatorToken", <<"+">>>>
OperatorTimes == <<"OperatorToken", <<"*">>>>
ParentheseStart == <<"ParentheseStartToken", <<>>>>
ParentheseEnd == <<"ParentheseEndToken", <<>>>>

ExprAlphabet ==
    {IdentifierA, IdentifierB, OperatorPlus, OperatorTimes, ParentheseStart, ParentheseEnd}

\* the tokens of a line written without blanks, every token one character wide
WithRows(kinds) == [i \in 1..Len(kinds) |-> Tok(kinds[i][1], kinds[i][2], i)]

----------------------------------------------------------------------------
(* Idle values of the components a specification does not run *)

ExprIdle == exprTokens = <<>> /\ exprResult = Null
ParseIdle ==
    /\ body = <<>>
    /\ statements = <<>>
    /\ minIndent = Null
    /\ maxIndent = Null
    /\ lastLineToken = Null
    /\ lineToken = Null
    /\ consumed = 0
    /\ outcome = Null
TokIdle ==
    /\ lineNo = 0
    /\ indents = <<>>
    /\ multiLineCommentCount = 0
    /\ lineTokens = <<>>
    /\ line = Null
    /\ tokOutcome = Null
EmitIdle == bytecode = Null

----------------------------------------------------------------------------
(* SpecExpr: parseExpression applied to every token list of up to          *)
(* MaxExprLen tokens over ExprAlphabet                                     *)

InitExpr ==
    /\ \E kind \in ExprAlphabet : exprTokens = WithRows(<<kind>>)
    /\ exprResult = Null
    /\ ParseIdle
    /\ TokIdle
    /\ EmitIdle

\* the caller hands over one more token
AppendToken ==
    /\ exprResult = Null
    /\ Len(exprTokens) < MaxExprLen
    /\ \E kind \in ExprAlphabet :
          exprTokens' = Append(exprTokens, Tok(kind[1], kind[2], Len(exprTokens) + 1))
    /\ UNCHANGED <<exprResult, parseVars, tokVars, emitVars>>

ApplyParseExpression ==
    /\ exprResult = Null
    /\ exprResult' = parseExpression(1, exprTokens, Null)
    /\ UNCHANGED <<exprTokens, parseVars, tokVars, emitVars>>

NextExpr == AppendToken \/ ApplyParseExpression

SpecExpr == InitExpr /\ [][NextExpr]_vars

ExprReturned == exprResult # Null /\ ~IsThrown(exprResult)

----------------------------------------------------------------------------
(* Claims about parseExpression *)

IsOperand(token) == token.type \in {"IdentifierToken", "NumericLiteralToken"}
OperandNode(token) ==
    IF token.type = "IdentifierToken" THEN Identifier(token.value)
    ELSE NumericLiteral(IntegerOf(parseInt(token.value)))

\* o1 op1 o2 ... opn o(n+1) with n >= 2 and no parentheses
IsChain(tokens) ==
    /\ Len(tokens) >= 5
    /\ Len(tokens) % 2 = 1
    /\ \A i \in 1..Len(tokens) :
         IF i % 2 = 1 THEN IsOperand(tokens[i]) ELSE tokens[i].type = "OperatorToken"

RECURSIVE LeftNested(_)
LeftNested(tokens) ==
    IF Len(tokens) = 1 THEN OperandNode(tokens[1])
    ELSE BinaryExpression(tokens[Len(tokens) - 1].value,
                          LeftNested(SubSeq(tokens, 1, Len(tokens) - 2)),
                          OperandNode(tokens[Len(tokens)]))

\* C1: a chain of n >= 2 binary operators over simple operands parses to the
\* fully left-nested tree ((o1 op1 o2) op2 o3) ... opn o(n+1).
C1_ChainIsLeftNested ==
    (exprResult # Null /\ IsChain(exprTokens)) => exprResult = LeftNested(exprTokens)

\* a op ( b op2 c )
IsParenthesisedRight(tokens) ==
    /\ Len(tokens) = 7
    /\ IsOperand(tokens[1]) /\ tokens[2].type = "OperatorToken"
    /\ tokens[3].type = "ParentheseStartToken"
    /\ IsOperand(tokens[4]) /\ tokens[5].type = "OperatorToken" /\ IsOperand(tokens[6])
    /\ tokens[7].type = "ParentheseEndToken"

\* C2: a op ( b op2 c ) parses to Binary(op, a, Binary(op2, b, c)): the
\* parenthesised sub-expression stays intact as the right operand.
C2_ParenthesesNotFlattened ==
    (exprResult # Null /\ IsParenthesisedRight(exprTokens)) =>
        exprResult = BinaryExpression(exprTokens[2].value, OperandNode(exprTokens[1]),
                        BinaryExpression(exprTokens[5].value, OperandNode(exprTokens[4]),
                                         OperandNode(exprTokens[6])))

\* every BinaryExpression node of the expression, at any depth, has a right
\* child that is not a BinaryExpression
RECURSIVE RightNeverBinary(_)
RightNeverBinary(e) ==
    CASE e.type = "BinaryExpression" ->
            /\ e.right.type # "BinaryExpression"
            /\ RightNeverBinary(e.left)
            /\ RightNeverBinary(e.right)
      [] e.type = "UnaryExpression" -> RightNeverBinary(e.argument)
      [] e.type = "MemberExpression" -> RightNeverBinary(e.property)
      [] e.type = "CallExpression" ->
            \A i \in 1..Len(e.arguments) : RightNeverBinary(e.arguments[i])
      [] OTHER -> TRUE

\* C3: in a returned AST every BinaryExpression node at any depth has a right
\* child whose type is not BinaryExpression.
C3_RightChildNeverBinary == ExprReturned => RightNeverBinary(exprResult)

----------------------------------------------------------------------------
(* Inputs of parse *)

MaxLines == 3
MaxIndent == 2
MaxGap == 2

AssignmentArrow == <<"AssignmentToken", <<>>>>
IfWord == <<"IfToken", <<>>>>
WhileWord == <<"WhileToken", <<>>>>
ConstWord == <<"ConstToken", <<>>>>
DefWord == <<"DefToken", <<>>>>
MemoryWord == <<"MemoryToken", <<>>>>
BracketStart == <<"BracketStartToken", <<>>>>
BracketEnd == <<"BracketEndToken", <<>>>>

\* one line of every statement form, and lines with a wrong token in a header
FullLines ==
    { <<IdentifierA, AssignmentArrow, NumericOne>>,
      <<IdentifierA, ParentheseStart, ParentheseEnd>>,
      <<IfWord, IdentifierA>>,
      <<WhileWord, IdentifierA>>,
      <<ConstWord, IdentifierA, AssignmentArrow, NumericOne>>,
      <<DefWord, IdentifierA, ParentheseStart, IdentifierB, ParentheseEnd>>,
      <<MemoryWord, BracketStart, NumericOne, BracketEnd, AssignmentArrow, IdentifierA>>,
      <<NumericOne>>,
      <<ConstWord, NumericOne>>,
      <<ConstWord, IdentifierA, NumericOne>>,
      <<DefWord, NumericOne>>,
      <<DefWord, IdentifierA, IdentifierB>> }

\* every line of FullLines, and every line that ends early
LineShapes == UNION {{SubSeq(full, 1, n) : n \in 1..Len(full)} : full \in FullLines}

----------------------------------------------------------------------------
(* Spec: parse applied to up to MaxLines line-tokens *)

Init ==
    /\ ParseStart
    /\ ExprIdle
    /\ TokIdle
    /\ EmitIdle

\* the iterable yields one more line-token; columns increase, blank lines leave gaps
ParseNextLine ==
    /\ consumed < MaxLines
    /\ \E shape \in LineShapes, indent \in 0..MaxIndent, gap \in 1..MaxGap :
          ParseLine([column |-> (IF lineToken = Null THEN 0 ELSE lineToken.column) + gap,
                     indent |-> indent,
                     tokens |-> WithRows(shape)])
    /\ UNCHANGED <<exprVars, tokVars, emitVars>>

ParseReturn ==
    /\ ParseEnd
    /\ UNCHANGED <<exprVars, tokVars, emitVars>>

Next == ParseNextLine \/ ParseReturn

Spec == Init /\ [][Next]_vars

----------------------------------------------------------------------------
(* Claims about parse *)

\* C4: tokenise followed by parse returns a Program or fails with a
\* ParseError; no input makes a stage fail with any other kind of exception.
C4_OnlyParseErrors == outcome.type \in {"null", "Program", "ParseError"}

IsBlock(statement) ==
    statement.type \in {"IfStatement", "WhileStatement", "FunctionDeclaration"}

RECURSIVE BodiesNonEmpty(_)
BodiesNonEmpty(list) ==
    \A i \in 1..Len(list) :
        IsBlock(list[i]) => (Len(list[i].body) > 0 /\ BodiesNonEmpty(list[i].body))

\* C5: in a returned Program the body of every IfStatement, WhileStatement and
\* FunctionDeclaration, at any nesting depth, holds at least one statement.
C5_BodiesNonEmpty == outcome.type = "Program" => BodiesNonEmpty(outcome.body)

\* a block nested in a block, both with a body, in the returned Program
C5_Witness ==
    /\ outcome.type = "Program"
    /\ \E i \in 1..Len(outcome.body) :
          /\ IsBlock(outcome.body[i])
          /\ \E j \in 1..Len(outcome.body[i].body) :
                /\ IsBlock(outcome.body[i].body[j])
                /\ Len(outcome.body[i].body[j].body) > 0

IsDeclaration(statement) ==
    statement.type \in {"ConstantStatement", "FunctionDeclaration"}

\* no ConstantStatement or FunctionDeclaration in the list, at any depth
RECURSIVE NoDeclaration(_)
NoDeclaration(list) ==
    \A i \in 1..Len(list) :
        /\ ~IsDeclaration(list[i])
        /\ IsBlock(list[i]) => NoDeclaration(list[i].body)

DeclarationsAtRootOnly(list) ==
    \A i \in 1..Len(list) : IsBlock(list[i]) => NoDeclaration(list[i].body)

IsDeclarationLine(lt) == lt.tokens[1].type \in {"ConstToken", "DefToken"}

\* C6: ConstantStatement and FunctionDeclaration nodes occur only as direct
\* elements of Program.body, and a const or def line whose indent is not 0 is
\* rejected with a ParseError, nothing being added for it.
C6_DeclarationsRootOnly ==
    /\ [](outcome.type = "Program" => DeclarationsAtRootOnly(outcome.body))
    /\ [][(consumed' = consumed + 1 /\ IsDeclarationLine(lineToken')
             /\ lineToken'.indent # 0)
          => (outcome'.type = "ParseError" /\ body' = body)]_vars

\* a def line at indent 1, inside an open block, has been rejected for its indent
C6_Witness ==
    /\ consumed >= 2
    /\ lineToken.tokens[1].type = "DefToken"
    /\ lineToken.indent = 1
    /\ outcome = ParseError(lineToken.column, lineToken.tokens[1].row,
                            "def keyword must be in the root scope (no indent)")

OpensBlock(lt) == lt.tokens[1].type \in {"IfToken", "WhileToken", "DefToken"}

\* the indent the line before forbids
ForbiddenAfter(earlier, indent) ==
    IF OpensBlock(earlier) THEN indent < earlier.indent + 1 ELSE indent > earlier.indent

InvalidIndent(lt) == ParseError(lt.column, 0, "Invalid indent space")

\* C7: a line fails with "<column>: Invalid indent space" exactly when the
\* line immediately before it opened a block at indent i and its indent is
\* below i + 1, or the line before was a non-block statement at indent i and
\* its indent is above i; lines further back put no constraint on it.
C7_IndentOfNextLine ==
    [][consumed' = consumed + 1
       => ((outcome' = InvalidIndent(lineToken'))
            <=> (lastLineToken # Null /\ ForbiddenAfter(lastLineToken, lineToken'.indent)))]_vars

\* the third line is rejected for its indent after a block header on the second
C7_Witness ==
    /\ consumed = 3
    /\ OpensBlock(lastLineToken)
    /\ lastLineToken.indent = 1
    /\ outcome = InvalidIndent(lineToken)

NoBody(lt) ==
    ParseError(lt.column, 0, "There is no body for the last if or while or def statement")

\* C8: when the last line-token is an if, while or def header that parsed
\* without error, parse fails with "<column of that line>: There is no body
\* for the last if or while or def statement"; when the last line is any
\* other accepted statement, parse returns a Program.
C8_LastLineHeader ==
    (outcome # Null /\ consumed > 0 /\ lastLineToken = lineToken) =>
        IF OpensBlock(lineToken) THEN outcome = NoBody(lineToken)
        ELSE outcome.type = "Program"

\* the input ended on a block header on its third line
C8_Witness ==
    /\ consumed = 3
    /\ lastLineToken = lineToken
    /\ OpensBlock(lineToken)
    /\ outcome = NoBody(lineToken)

----------------------------------------------------------------------------
(* Inputs of tokenise *)

MaxSourceLines == 3

\* leading white space of a line: nothing, one blank, two blanks, a tab
Indentations == {<<>>, <<" ">>, <<" ", " ">>, <<"\t">>}

\* a block comment that holds another one, and a word after it
NestedComment == <<"/", "*", "a", "/", "*", "a", "*", "/", "a", "*", "/", "a">>

\* what follows it: nothing, a word, a bare `!`, a line comment, the start
\* and the end of a block comment, the two run together, a nested block
\* comment, a word of one character outside the BMP and an operator
Contents ==
    {<<>>, <<"a">>, <<"!">>, <<"#">>, <<"/", "*">>, <<"*", "/">>, <<"/", "*", "/">>,
     NestedComment, <<HighSurrogate, LowSurrogate, "+">>}

RawLines == {indentation \o content : indentation \in Indentations, content \in Contents}

----------------------------------------------------------------------------
(* SpecTok: tokenise applied to sources of up to MaxSourceLines lines *)

InitTok ==
    /\ TokeniseStart
    /\ ExprIdle
    /\ ParseIdle
    /\ EmitIdle

TokeniseNextLine ==
    /\ lineNo < MaxSourceLines
    /\ \E raw \in RawLines : TokeniseLine(raw)
    /\ UNCHANGED <<exprVars, parseVars, emitVars>>

TokeniseReturn ==
    /\ TokeniseEnd
    /\ UNCHANGED <<exprVars, parseVars, emitVars>>

NextTok == TokeniseNextLine \/ TokeniseReturn

SpecTok == InitTok /\ [][NextTok]_vars

----------------------------------------------------------------------------
(* Claims about tokenise *)

\* the largest indent of the line-tokens before the k-th; 0 when there is none
RECURSIVE LargestIndentBefore(_, _)
LargestIndentBefore(list, k) ==
    IF k <= 1 THEN 0 ELSE Max(list[k - 1].indent, LargestIndentBefore(list, k - 1))

\* the last step pushed a line-token for the line it read
PushedLineToken ==
    /\ line # Null
    /\ Len(lineTokens) > 0
    /\ lineTokens[Len(lineTokens)].column = line.column + 1

\* C9: the indent of every line-token of the output lies between 0 and one
\* more than the largest indent of any earlier line-token (0 when there is
\* none), and is the position of the line's space count in the indent stack.
C9_IndentWithinPreviousMax ==
    /\ \A k \in 1..Len(lineTokens) :
          /\ lineTokens[k].indent >= 0
          /\ lineTokens[k].indent <= LargestIndentBefore(lineTokens, k) + 1
    /\ PushedLineToken => At(indents, lineTokens[Len(lineTokens)].indent) = line.space

StrictlyIncreasing(stack) == \A i \in 1..(Len(stack) - 1) : stack[i] < stack[i + 1]

Contains(stack, space) == \E i \in 1..Len(stack) : stack[i] = space

\* the stack cut after its entry equal to space
TruncatedAt(stack, space) ==
    SubSeq(stack, 1, CHOOSE i \in 1..Len(stack) : stack[i] = space)

\* the step read a line that iterateLine yields
YieldsLine == lineNo' = lineNo + 1 /\ line'.raw # <<>>

\* the line loop went on to the next line: the stack after it
StackAfterLine ==
    tokOutcome' = Null =>
        /\ StrictlyIncreasing(indents')
        /\ indents'[1] = 0
        /\ Contains(indents, line'.space) => indents' = TruncatedAt(indents, line'.space)
        /\ line'.space > indents[Len(indents)] => indents' = Append(indents, line'.space)

\* a space count below the top of the stack that is not in the stack
UnseenDedent == line'.space < indents[Len(indents)] /\ ~Contains(indents, line'.space)

BareExclamation(error) ==
    /\ error.type = "ParseError"
    /\ error.msg = "There should be only '=' after the '!'"

HasPair(text, pair) == \E i \in 1..(Len(text) - 1) : SubSeq(text, i, i + 1) = pair

\* the line read by the step is blank, holds only a line comment, or lies
\* inside a block comment that it does not close
ProducesNothing ==
    \/ line'.text = <<>>
    \/ Head(line'.text) = "#"
    \/ multiLineCommentCount > 0 /\ ~HasPair(line'.text, <<"*", "/">>)

ColumnsIncrease(list) ==
    \A k \in 1..(Len(list) - 1) : list[k].column < list[k + 1].column

\* C11: every line-token has a non-empty tokens list and the 1-based number
\* of its source line as column, blank lines, comment-only lines and lines
\* inside block comments being counted; such lines produce no line-token, so
\* the columns of the output strictly increase and a blank or comment-only
\* line shifts the columns of the later lines by one.
C11_ColumnIsLineNumber ==
    /\ [](/\ ColumnsIncrease(lineTokens)
          /\ \A k \in 1..Len(lineTokens) : lineTokens[k].tokens # <<>>)
    /\ [][lineNo' = lineNo + 1 =>
             /\ \/ lineTokens' = lineTokens
                \/ /\ Len(lineTokens') = Len(lineTokens) + 1
                   /\ SubSeq(lineTokens', 1, Len(lineTokens)) = lineTokens
                   /\ lineTokens'[Len(lineTokens')].column = lineNo + 1
             /\ ProducesNothing => lineTokens' = lineTokens]_vars

\* the first and the third line of a source gave the two line-tokens: the
\* second line gave none and is counted
C11_Witness ==
    /\ Len(lineTokens) = 2
    /\ lineTokens[1].column = 1
    /\ lineTokens[2].column = 3
    /\ lineNo = 3

\* The block comments of a line as stated: scanning from position i at the
\* given depth, a `/*` raises the depth and a `*/` lowers it, two characters
\* at a time; at depth 0 a `#` ends the scan.  Yields the depth after the
\* line and the text with the comments blanked out.
RECURSIVE DelimiterScan(_, _, _)
DelimiterScan(text, i, depth) ==
    LET pair == SubSeq(text, i + 1, Min(i + 2, Len(text)))
        blank(n) == [k \in 1..Len(text) |-> IF k > i /\ k <= i + n THEN " " ELSE text[k]]
    IN IF i >= Len(text) THEN [depth |-> depth, text |-> text]
       ELSE IF depth = 0 /\ text[i + 1] = "#" THEN [depth |-> depth, text |-> text]
       ELSE IF pair = <<"/", "*">> THEN DelimiterScan(blank(2), i + 2, depth + 1)
       ELSE IF depth > 0 /\ pair = <<"*", "/">> THEN DelimiterScan(blank(2), i + 2, depth - 1)
       ELSE IF depth > 0 THEN DelimiterScan(blank(1), i + 1, depth)
       ELSE DelimiterScan(text, i + 1, depth)

\* the tokens the step pushed for its line
TokensOfStep ==
    IF lineTokens' = lineTokens THEN <<>> ELSE lineTokens'[Len(lineTokens')].tokens

\* C12: block comments nest by a depth counter kept across lines; each `/*`
\* raises it and each `*/` lowers it, no character belonging to two
\* delimiters, and tokens come only from the text at depth 0.
C12_CommentDepth ==
    [][YieldsLine /\ tokOutcome' = Null =>
          LET scanned == DelimiterScan(line'.text, 0, multiLineCommentCount) IN
          /\ multiLineCommentCount' = scanned.depth
          /\ TokensOfStep = TokensOfLine(scanned.text, line'.column, 0).tokens]_vars

\* the step is the end of the input, reached without an error
EndOfInput == tokOutcome = Null /\ tokOutcome' # Null /\ lineNo' = lineNo

\* C13: when a block comment is still open at the end of the input, tokenise
\* fails with "<column of the last line>: The multi-line comment is not
\* closed", also when no line of the source produced a token.
C13_UnclosedComment ==
    [][EndOfInput /\ multiLineCommentCount # 0 =>
          tokOutcome' = ParseError(lineNo, 0, "The multi-line comment is not closed")]_vars

\* the first character of the text a token was made from
FirstCharacter(token) ==
    CASE token.type \in {"IdentifierToken", "NumericLiteralToken", "OperatorToken"}
            -> Head(token.value)
      [] token.type = "MemoryToken" -> "m"
      [] token.type = "IfToken" -> "i"
      [] token.type = "WhileToken" -> "w"
      [] token.type = "DefToken" -> "d"
      [] token.type = "ConstToken" -> "c"
      [] token.type = "AssignmentToken" -> "-"
      [] token.type = "SeparatorToken" -> ","
      [] token.type = "ParentheseStartToken" -> "("
      [] token.type = "ParentheseEndToken" -> ")"
      [] token.type = "BracketStartToken" -> "["
      [] token.type = "BracketEndToken" -> "]"

\* C14: the row of every token is 1 + the offset of the token's first
\* character within its source line, in code units (2 for a code point
\* outside the BMP), on indented lines as on lines that start in the first
\* position.
C14_RowIsOffsetInLine ==
    PushedLineToken =>
        \A k \in 1..Len(lineTokens[Len(lineTokens)].tokens) :
            LET token == lineTokens[Len(lineTokens)].tokens[k] IN
            At(line.raw, token.row - 1) = FirstCharacter(token)

----------------------------------------------------------------------------
(* SpecNum: parseExpression applied to every list of up to MaxNumLen       *)
(* tokens over numeric literals at the edge of 32 bits and `+`, `-`        *)

MaxNumLen == 4

OperatorMinus == <<"OperatorToken", <<"-">>>>
MaxLiteral == <<"2", "1", "4", "7", "4", "8", "3", "6", "4", "7">>
BeyondMaxLiteral == <<"2", "1", "4", "7", "4", "8", "3", "6", "4", "8">>
LongLiteral == <<"9", "9", "9", "9", "9", "9", "9", "9", "9", "9">>

NumAlphabet ==
    {OperatorMinus, OperatorPlus, IdentifierA, NumericOne,
     <<"NumericLiteralToken", MaxLiteral>>,
     <<"NumericLiteralToken", BeyondMaxLiteral>>,
     <<"NumericLiteralToken", LongLiteral>>}

InitNum ==
    /\ \E kind \in NumAlphabet : exprTokens = WithRows(<<kind>>)
    /\ exprResult = Null
    /\ ParseIdle
    /\ TokIdle
    /\ EmitIdle

\* the caller hands over one more token
AppendNumToken ==
    /\ exprResult = Null
    /\ Len(exprTokens) < MaxNumLen
    /\ \E kind \in NumAlphabet :
          exprTokens' = Append(exprTokens, Tok(kind[1], kind[2], Len(exprTokens) + 1))
    /\ UNCHANGED <<exprResult, parseVars, tokVars, emitVars>>

NextNum == AppendNumToken \/ ApplyParseExpression

SpecNum == InitNum /\ [][NextNum]_vars

----------------------------------------------------------------------------
(* Claims about numeric literals *)

IsLiteral(tokens, i) == tokens[i].type = "NumericLiteralToken"

\* token i is a `-` where an operand is expected
IsPrefixMinus(tokens, i) ==
    /\ tokens[i].type = "OperatorToken"
    /\ tokens[i].value = <<"-">>
    /\ (i = 1 \/ tokens[i - 1].type = "OperatorToken")

IsNegated(tokens, i) == i > 1 /\ IsPrefixMinus(tokens, i - 1)

\* a > b for two runs of digits of the same length
RECURSIVE DigitsAbove(_, _)
DigitsAbove(a, b) ==
    IF Len(a) = 0 THEN FALSE
    ELSE IF Head(a) # Head(b) THEN DigitValue(Head(a)) > DigitValue(Head(b))
    ELSE DigitsAbove(Tail(a), Tail(b))

\* the literal, negated or not, lies in [-2147483648, 2147483647]
FitsInt32(digits, negated) ==
    \/ Len(digits) < Len(MaxLiteral)
    \/ /\ Len(digits) = Len(MaxLiteral)
       /\ ~DigitsAbove(digits, IF negated THEN BeyondMaxLiteral ELSE MaxLiteral)

\* the value of a literal that fits, counted down from 0 when negated
RECURSIVE SignedValue(_, _)
SignedValue(digits, negated) ==
    IF Len(digits) = 0 THEN 0
    ELSE LET front == SignedValue(SubSeq(digits, 1, Len(digits) - 1), negated)
             digit == DigitValue(digits[Len(digits)])
         IN IF negated THEN front * 10 - digit ELSE front * 10 + digit

\* the values of the NumericLiteral nodes of an expression, from left to right
RECURSIVE LiteralValues(_)
LiteralValues(e) ==
    CASE e.type = "NumericLiteral" -> <<e.value>>
      [] e.type = "BinaryExpression" -> LiteralValues(e.left) \o LiteralValues(e.right)
      [] e.type = "UnaryExpression" -> LiteralValues(e.argument)
      [] OTHER -> <<>>

RECURSIVE ExpectedValues(_, _)
ExpectedValues(tokens, i) ==
    IF i > Len(tokens) THEN <<>>
    ELSE (IF IsLiteral(tokens, i)
          THEN <<SignedValue(tokens[i].value, IsNegated(tokens, i))>>
          ELSE <<>>) \o ExpectedValues(tokens, i + 1)

OutOfRangeAt(error, row) ==
    error = ParseError(1, row, "Out of range integer value")

Fits(tokens, i) == FitsInt32(tokens[i].value, IsNegated(tokens, i))

\* literal i stands where an operand is expected, and so does every operand
\* before it, each literal of which fits: the parse gets to literal i
IsReached(tokens, i) ==
    /\ i = 1 \/ tokens[i - 1].type = "OperatorToken"
    /\ \A k \in 1..(i - 1) :
          IsOperand(tokens[k]) =>
              /\ IsLiteral(tokens, k) => Fits(tokens, k)
              /\ k = 1 \/ tokens[k - 1].type = "OperatorToken"

\* C15: a numeric literal is accepted exactly when its value, negated if the
\* token just before it is a prefix `-`, lies in [-2147483648, 2147483647]:
\* an expression is returned only if every literal fits, and then every
\* NumericLiteral holds the signed value, which fits 32 bits; a literal the
\* parse gets to is rejected as out of range if and only if it does not fit.
C15_LiteralRange ==
    exprResult # Null =>
        /\ ~IsThrown(exprResult) =>
              /\ \A i \in 1..Len(exprTokens) : IsLiteral(exprTokens, i) => Fits(exprTokens, i)
              /\ LiteralValues(exprResult) = ExpectedValues(exprTokens, 1)
              /\ \A k \in 1..Len(LiteralValues(exprResult)) :
                    /\ LiteralValues(exprResult)[k] >= Int32Min
                    /\ LiteralValues(exprResult)[k] <= Int32Max
        /\ \A i \in 1..Len(exprTokens) :
              IsLiteral(exprTokens, i) /\ IsReached(exprTokens, i) =>
                  (OutOfRangeAt(exprResult, i) <=> ~Fits(exprTokens, i))
        /\ \A i \in 1..Len(exprTokens) :
              OutOfRangeAt(exprResult, i) =>
                  IsLiteral(exprTokens, i) /\ IsReached(exprTokens, i)

\* `-2147483648` has been accepted with the value -2147483648
C15_Witness ==
    /\ Len(exprTokens) = 2
    /\ exprTokens[1].value = <<"-">>
    /\ exprTokens[2].value = BeyondMaxLiteral
    /\ exprResult = NumericLiteral(Int32Min)

----------------------------------------------------------------------------
(* Claims about the statements of parse *)

RECURSIVE ExpressionStatementsAreCalls(_)
ExpressionStatementsAreCalls(list) ==
    \A i \in 1..Len(list) :
        /\ list[i].type = "ExpressionStatement" => list[i].expression.type = "CallExpression"
        /\ IsBlock(list[i]) => ExpressionStatementsAreCalls(list[i].body)

HasAssignment(tokens) == \E i \in 1..Len(tokens) : tokens[i].type = "AssignmentToken"

\* a line that starts with an identifier or memory, has no `->`, and whose
\* tokens parse to an expression that is not a call
IsIdleExpressionLine(lt) ==
    /\ lt.tokens[1].type \in {"IdentifierToken", "MemoryToken"}
    /\ ~HasAssignment(lt.tokens)
    /\ LET expression == parseExpression(lt.column, lt.tokens, Null) IN
       ~IsThrown(expression) /\ expression.type # "CallExpression"

NoEffect(lt) == ParseError(lt.column, 0, "This expression has no effect")

\* C16 as stated: every ExpressionStatement of a returned Program, at the
\* root or in a body, holds a CallExpression, and a line that starts with an
\* identifier or memory, has no `->` and parses to anything but a call fails
\* with "<column>: This expression has no effect".
C16_CallsOnlyAsStated ==
    /\ [](outcome.type = "Program" => ExpressionStatementsAreCalls(outcome.body))
    /\ [][consumed' = consumed + 1 /\ IsIdleExpressionLine(lineToken')
             => outcome' = NoEffect(lineToken')]_vars

\* C16 amended: the same, for a line whose indent the line before allows; a
\* line at a forbidden indent fails with the indent error before its tokens
\* are looked at.
C16_CallsOnly ==
    /\ [](outcome.type = "Program" => ExpressionStatementsAreCalls(outcome.body))
    /\ [][consumed' = consumed + 1 /\ IsIdleExpressionLine(lineToken')
             => IF lastLineToken # Null /\ ForbiddenAfter(lastLineToken, lineToken'.indent)
                THEN outcome' = InvalidIndent(lineToken')
                ELSE outcome' = NoEffect(lineToken')]_vars

\* a line `memory [ 1 ]` in the body of a block has been rejected
C16_Witness ==
    /\ consumed >= 2
    /\ lineToken.indent = 1
    /\ lineToken.tokens[1].type = "MemoryToken"
    /\ Len(lineToken.tokens) = 4
    /\ outcome = NoEffect(lineToken)

----------------------------------------------------------------------------
(* SpecAssign: parse applied to up to MaxLines line-tokens that hold `->`  *)

\* lines with one `->` and with two, with a left side that is a name, a
\* member, a call, a sum and a number, and lines of the other statements
AssignFullLines ==
    { <<IdentifierA, AssignmentArrow, NumericOne, AssignmentArrow, NumericOne>>,
      <<IdentifierA, ParentheseStart, ParentheseEnd, AssignmentArrow, NumericOne>>,
      <<IdentifierA, BracketStart, NumericOne, BracketEnd, AssignmentArrow, NumericOne>>,
      <<MemoryWord, BracketStart, NumericOne, BracketEnd, AssignmentArrow, IdentifierA>>,
      <<IdentifierA, OperatorPlus, IdentifierA, AssignmentArrow, NumericOne>>,
      <<IdentifierA, AssignmentArrow, ParentheseStart, AssignmentArrow, ParentheseEnd>>,
      <<NumericOne, AssignmentArrow, IdentifierA>>,
      <<AssignmentArrow, NumericOne>>,
      <<IfWord, IdentifierA, AssignmentArrow, NumericOne>>,
      <<ConstWord, IdentifierA, AssignmentArrow, NumericOne, AssignmentArrow, NumericOne>> }

AssignShapes == UNION {{SubSeq(full, 1, n) : n \in 1..Len(full)} : full \in AssignFullLines}

\* the iterable yields one more line-token
ParseAssignmentLine ==
    /\ consumed < MaxLines
    /\ \E shape \in AssignShapes, indent \in 0..MaxIndent :
          ParseLine([column |-> consumed + 1, indent |-> indent, tokens |-> WithRows(shape)])
    /\ UNCHANGED <<exprVars, tokVars, emitVars>>

NextAssign == ParseAssignmentLine \/ ParseReturn

SpecAssign == Init /\ [][NextAssign]_vars

----------------------------------------------------------------------------
(* Claims about assignment lines *)

IsAssignable(expression) == expression.type \in {"MemberExpression", "Identifier"}

RECURSIVE LeftSidesAssignable(_)
LeftSidesAssignable(list) ==
    \A i \in 1..Len(list) :
        /\ list[i].type = "AssignmentStatement" => IsAssignable(list[i].left)
        /\ IsBlock(list[i]) => LeftSidesAssignable(list[i].body)

\* the position of the first `->` of the line, 0-based
FirstArrow(tokens) ==
    CHOOSE i \in 0..(Len(tokens) - 1) :
        /\ tokens[i + 1].type = "AssignmentToken"
        /\ \A j \in 0..(i - 1) : tokens[j + 1].type # "AssignmentToken"

ArrowCount(tokens) == Cardinality({i \in 1..Len(tokens) : tokens[i].type = "AssignmentToken"})

\* the two sides of the line are as an assignment needs them
SidesInOrder(lt) ==
    LET before == SubSeq(lt.tokens, 1, FirstArrow(lt.tokens))
        after == SubSeq(lt.tokens, FirstArrow(lt.tokens) + 2, Len(lt.tokens))
    IN /\ before # <<>>
       /\ IsAssignable(parseExpression(lt.column, before, Null))
       /\ after # <<>>

\* the statement made from the line at the given indent: the last one of the
\* body that is open at that depth
RECURSIVE NewestStatement(_, _)
NewestStatement(list, depth) ==
    IF depth = 0 THEN list[Len(list)]
    ELSE NewestStatement(list[Len(list)].body, depth - 1)

SplitAtFirstArrow(lt) ==
    AssignmentStatement(
        parseExpression(lt.column, SubSeq(lt.tokens, 1, FirstArrow(lt.tokens)), Null),
        parseExpression(lt.column,
                        SubSeq(lt.tokens, FirstArrow(lt.tokens) + 2, Len(lt.tokens)), Null))

----------------------------------------------------------------------------
(* emit: the WebAssembly module *)

MAGIC_MODULE_HEADER == <<0, 97, 115, 109>>
MODULE_VERSION == <<1, 0, 0, 0>>

SECTION_TYPE_ID == 1
SECTION_FUNCTION_ID == 3
SECTION_EXPORT_ID == 7
SECTION_CODE_ID == 10

TYPE_FUNCTION == 96
TYPE_VALUE_f32 == 125
EXPORT_DESCRIPTION_FUNCTION == 0
OPCODE_END == 11
OPCODE_GET_LOCAL == 32
OPCODE_f32_ADD == 146

\* encodeULEB128 of @thi.ng/leb128: 7 bits a byte, low bits first, bit 8 set
\* on every byte but the last
RECURSIVE encodeULEB128(_)
encodeULEB128(n) ==
    IF n < 128 THEN <<n>> ELSE <<(n % 128) + 128>> \o encodeULEB128(n \div 128)

\* data.flat() of an array of arrays
RECURSIVE Flat(_)
Flat(data) == IF Len(data) = 0 THEN <<>> ELSE Head(data) \o Flat(Tail(data))

\* encodeVector of an array of numbers
encodeVector(data) == encodeULEB128(Len(data)) \o data

\* encodeVector of an array of arrays: the count is that of the arrays
encodeVectorOfArrays(data) == encodeULEB128(Len(data)) \o Flat(data)

\* textEncoder.encode(str) of the letters emit uses
Utf8(str) ==
    [i \in 1..Len(str) |-> CASE str[i] = "r" -> 114 [] str[i] = "u" -> 117 [] str[i] = "n" -> 110]

encodeString(str) == <<Len(Utf8(str))>> \o Utf8(str)

\* new Uint8Array(array): every element modulo 2^8
Uint8Array(array) == [i \in 1..Len(array) |-> array[i] % 256]

createSectionNoLength(type, vector) == <<type>> \o vector

createSection(type, vector) == <<type>> \o encodeVector(vector)

emit ==
    LET functionType == <<TYPE_FUNCTION>>
                            \o encodeVector(<<TYPE_VALUE_f32, TYPE_VALUE_f32>>)
                            \o encodeVector(<<TYPE_VALUE_f32>>)
        typeSection == createSection(SECTION_TYPE_ID, encodeVectorOfArrays(<<functionType>>))
        functionSection == createSection(SECTION_FUNCTION_ID, encodeVector(<<0>>))
        exportSection ==
            createSection(SECTION_EXPORT_ID,
                          encodeVectorOfArrays(<<encodeString(<<"r", "u", "n">>)
                                                   \o <<EXPORT_DESCRIPTION_FUNCTION, 0>>>>))
        code == <<OPCODE_GET_LOCAL>> \o encodeULEB128(0)
                    \o <<OPCODE_GET_LOCAL>> \o encodeULEB128(1)
                    \o <<OPCODE_f32_ADD, OPCODE_END>>
        functionBody == encodeVector(<<0>> \o code)
        codeSection == createSection(SECTION_CODE_ID, encodeVectorOfArrays(<<functionBody>>))
    IN Uint8Array(MAGIC_MODULE_HEADER \o MODULE_VERSION \o typeSection \o functionSection
                      \o exportSection \o codeSection)

----------------------------------------------------------------------------
(* SpecEmit: emit called at any moment of a parse *)

EmitCall ==
    /\ bytecode' = emit
    /\ UNCHANGED <<exprVars, parseVars, tokVars>>

NextEmit == ParseAssignmentLine \/ ParseReturn \/ EmitCall

SpecEmit == Init /\ [][NextEmit]_vars

----------------------------------------------------------------------------
(* Claims about emit *)

\* the sections of a module body: id, a one-byte length, that many bytes of
\* content; a length that runs past the end leaves a section with id -1
RECURSIVE ReadSections(_)
ReadSections(bytes) ==
    IF Len(bytes) = 0 THEN <<>>
    ELSE IF Len(bytes) < 2 \/ bytes[2] >= 128 \/ Len(bytes) < 2 + bytes[2]
    THEN <<[id |-> -1, content |-> bytes]>>
    ELSE <<[id |-> bytes[1], content |-> SubSeq(bytes, 3, 2 + bytes[2])]>>
             \o ReadSections(SubSeq(bytes, 3 + bytes[2], Len(bytes)))

\* the value a function body leaves on the stack: local.get, f32.add and end
RECURSIVE Execute(_, _, _)
Execute(code, locals, stack) ==
    IF Len(code) = 0 \/ Head(code) = 11 THEN stack
    ELSE IF Head(code) = 32
    THEN Execute(SubSeq(code, 3, Len(code)), locals, Append(stack, locals[code[2] + 1]))
    ELSE IF Head(code) = 146
    THEN Execute(Tail(code), locals,
                 Append(SubSeq(stack, 1, Len(stack) - 2),
                        stack[Len(stack) - 1] + stack[Len(stack)]))
    ELSE <<>>

\* C18: emit always returns the same bytes: the header 00 61 73 6d 01 00 00
\* 00, then four sections with ids 1, 3, 7, 10 whose length fields count
\* their content, describing one exported function `run` of two parameters
\* whose body adds local 0 and local 1, so that run(5, 6) = 11.
C18_EmitBytes ==
    /\ [](bytecode # Null =>
             LET sections == ReadSections(SubSeq(bytecode, 9, Len(bytecode))) IN
             /\ SubSeq(bytecode, 1, 8) = <<0, 97, 115, 109, 1, 0, 0, 0>>
             /\ Len(sections) = 4
             /\ <<sections[1].id, sections[2].id, sections[3].id, sections[4].id>>
                    = <<1, 3, 7, 10>>
             /\ sections[1].content = <<1, 96, 2, 125, 125, 1, 125>>
             /\ sections[2].content = <<1, 0>>
             /\ sections[3].content = <<1, 3, 114, 117, 110, 0, 0>>
             /\ SubSeq(sections[4].content, 1, 3) = <<1, 7, 0>>
             /\ Len(sections[4].content) = 9
             /\ Execute(SubSeq(sections[4].content, 4, 9), <<5, 6>>, <<>>) = <<11>>)
    /\ [][bytecode # Null => bytecode' = bytecode]_vars

\* emit has been called after parse returned a Program with a statement
C18_Witness ==
    /\ bytecode # Null
    /\ Len(bytecode) = 41
    /\ outcome.type = "Program"
    /\ Len(outcome.body) > 0

----------------------------------------------------------------------------
(* Claims about the statement stack of parse *)

\* the line read by the step is at an indent the line before allows
PassesIndentCheck ==
    /\ consumed' = consumed + 1
    /\ ~(lastLineToken # Null /\ ForbiddenAfter(lastLineToken, lineToken'.indent))

\* C19: for every line that passes the indent check, indent + 1 is at most
\* the length of the statement stack, so that setting the length to
\* indent + 1 only removes frames and the frame the statement is appended to
\* exists.
C19_StackOnlyShrinks ==
    [][PassesIndentCheck =>
          /\ lineToken'.indent + 1 <= Len(statements)
          /\ \A i \in 1..Len(statements') : statements'[i] # Undefined]_vars

----------------------------------------------------------------------------
(* SpecNest: parse applied to up to MaxNestLines line-tokens, one of every  *)
(* statement form and the same lines with a further token at their end,     *)
(* with the line-tokens it has taken kept in lineTokens                     *)

MaxNestLines == 4

\* a call, an assignment, a constant and the three lines that open a body,
\* and each of them followed by one more token
NestShapes ==
    { <<IdentifierA, ParentheseStart, ParentheseEnd>>,
      <<IdentifierA, AssignmentArrow, NumericOne>>,
      <<ConstWord, IdentifierA, AssignmentArrow, NumericOne>>,
      <<IfWord, IdentifierA>>,
      <<WhileWord, IdentifierA>>,
      <<DefWord, IdentifierA, ParentheseStart, IdentifierB, ParentheseEnd>>,
      <<IdentifierA, ParentheseStart, ParentheseEnd, IdentifierA>>,
      <<IdentifierA, AssignmentArrow, NumericOne, NumericOne>>,
      <<ConstWord, IdentifierA, AssignmentArrow, NumericOne, NumericOne>>,
      <<IfWord, IdentifierA, IdentifierA>>,
      <<WhileWord, IdentifierA, IdentifierA>>,
      <<DefWord, IdentifierA, ParentheseStart, IdentifierB, ParentheseEnd, IdentifierA>>,
      <<DefWord, IdentifierA, ParentheseStart, IdentifierB, ParentheseEnd, ParentheseEnd>>,
      <<DefWord, IdentifierA, ParentheseStart, IdentifierB, ParentheseEnd, AssignmentArrow>> }

\* the iterable yields one more line-token
ParseNestedLine ==
    /\ consumed < MaxNestLines
    /\ \E shape \in NestShapes, indent \in 0..MaxIndent :
          LET lt == [column |-> consumed + 1, indent |-> indent,
                     tokens |-> WithRows(shape)]
          IN /\ ParseLine(lt)
             /\ lineTokens' = Append(lineTokens, lt)
    /\ UNCHANGED <<exprVars, emitVars, lineNo, indents, multiLineCommentCount,
                   line, tokOutcome>>

NextNest == ParseNestedLine \/ ParseReturn

SpecNest == Init /\ [][NextNest]_vars

----------------------------------------------------------------------------
(* Claims about the nesting of statements *)

OpensBody(lt) == lt.tokens[1].type \in {"IfToken", "WhileToken", "DefToken"}

\* the statement a line makes, with its body still empty
StatementOfLine(lt) ==
    LoopBody([thrown |-> Null, body |-> <<>>, statements |-> <<Frame(<<>>)>>,
              minIndent |-> Null, maxIndent |-> Null],
             [lt EXCEPT !.indent = 0]).body[1]

\* the lines before line k that open a body one indent above line k
OwnersOf(lines, k) ==
    {j \in 1..(k - 1) : OpensBody(lines[j]) /\ lines[j].indent = lines[k].indent - 1}

Greatest(numbers) == CHOOSE n \in numbers : \A m \in numbers : m <= n

\* the lines whose statements belong to the body of line owner (0: the
\* Program), in the order of the lines
LinesOf(lines, owner) ==
    LET members == {k \in 1..Len(lines) :
                       IF lines[k].indent = 0 THEN owner = 0
                       ELSE /\ OwnersOf(lines, k) # {}
                            /\ owner = Greatest(OwnersOf(lines, k))}
    IN members

RECURSIVE Ascending(_)
Ascending(numbers) ==
    IF numbers = {} THEN <<>>
    ELSE Ascending(numbers \ {Greatest(numbers)}) \o <<Greatest(numbers)>>

\* the body of line owner as the placement of the lines gives it
RECURSIVE BodyOf(_, _)
BodyOf(lines, owner) ==
    LET members == Ascending(LinesOf(lines, owner)) IN
    [i \in 1..Len(members) |->
        IF OpensBody(lines[members[i]])
        THEN [StatementOfLine(lines[members[i]])
                  EXCEPT !.body = BodyOf(lines, members[i])]
        ELSE StatementOfLine(lines[members[i]])]

\* every line has a place: it is at indent 0 or some earlier line owns it
EveryLinePlaced(lines) ==
    \A k \in 1..Len(lines) : lines[k].indent = 0 \/ OwnersOf(lines, k) # {}

\* C20: in every Program that parse returns, the statement of a line at
\* indent 0 is an element of Program.body, the statement of a line at indent
\* i > 0 is an element of the body of the most recent earlier if, while or def
\* line at indent i - 1, and every body holds its statements in the order of
\* their lines.
C20_Nesting ==
    outcome # Null /\ outcome.type = "Program" =>
        /\ EveryLinePlaced(lineTokens)
        /\ outcome.body = BodyOf(lineTokens, 0)

\* a Program returned for four lines: a body in a body, then a line back at
\* indent 1 that is placed after the inner one
C20_Witness ==
    /\ outcome # Null
    /\ outcome.type = "Program"
    /\ Len(lineTokens) = 4
    /\ <<lineTokens[1].indent, lineTokens[2].indent, lineTokens[3].indent,
         lineTokens[4].indent>> = <<0, 1, 2, 1>>
    /\ Len(outcome.body) = 1
    /\ Len(outcome.body[1].body) = 2
    /\ Len(outcome.body[1].body[1].body) = 1

----------------------------------------------------------------------------
(* SpecList: parse applied to one line that is a call or a def header with *)
(* up to MaxSlots tokens between its parentheses                           *)

MaxSlots == 4

Separator == <<"SeparatorToken", <<>>>>

\* every sequence of up to n elements of alphabet
RECURSIVE RunsOver(_, _)
RunsOver(alphabet, n) ==
    IF n = 0 THEN {<<>>}
    ELSE RunsOver(alphabet, n - 1)
             \cup {Append(run, k) : run \in RunsOver(alphabet, n - 1), k \in alphabet}

\* `a ( ... )` and `def a ( ... )`, with names, commas and parentheses inside
ListLines ==
    {head \o inner \o <<ParentheseEnd>> :
        head \in {<<IdentifierA, ParentheseStart>>,
                  <<DefWord, IdentifierA, ParentheseStart>>},
        inner \in RunsOver({IdentifierA, Separator, ParentheseStart, ParentheseEnd},
                           MaxSlots)}

\* the iterable yields its one line-token
ParseListLine ==
    /\ consumed = 0
    /\ \E shape \in ListLines :
          ParseLine([column |-> 1, indent |-> 0, tokens |-> WithRows(shape)])
    /\ UNCHANGED <<exprVars, tokVars, emitVars>>

NextList == ParseListLine \/ ParseReturn

SpecList == Init /\ [][NextList]_vars

----------------------------------------------------------------------------
(* Claims about argument and parameter lists *)

\* the number of tokens before the list: `a (` or `def a (`
HeadLength(tokens) == IF tokens[1].type = "DefToken" THEN 3 ELSE 2

\* the parentheses open at token i, counted from the one that opens the list
RECURSIVE DepthAt(_, _, _)
DepthAt(tokens, from, i) ==
    IF i < from THEN 0
    ELSE DepthAt(tokens, from, i - 1)
            + (IF tokens[i].type = "ParentheseStartToken" THEN 1
               ELSE IF tokens[i].type = "ParentheseEndToken" THEN -1 ELSE 0)

\* the last token is the parenthese that closes the one that opens the list
ListIsWholeLine(tokens) ==
    LET from == HeadLength(tokens) IN
    /\ DepthAt(tokens, from, Len(tokens)) = 0
    /\ \A i \in from..(Len(tokens) - 1) : DepthAt(tokens, from, i) >= 1

\* the positions that bound the slots: the opening parenthese, the commas of
\* the list itself, and the closing parenthese
SlotBounds(tokens) ==
    LET from == HeadLength(tokens) IN
    {from, Len(tokens)}
        \cup {i \in (from + 1)..(Len(tokens) - 1) :
                 tokens[i].type = "SeparatorToken" /\ DepthAt(tokens, from, i) = 1}

\* nothing between two neighbouring bounds, one of them a comma
HasEmptySlot(tokens) ==
    \E i \in SlotBounds(tokens) :
        /\ i + 1 \in SlotBounds(tokens)
        /\ tokens[i].type = "SeparatorToken" \/ tokens[i + 1].type = "SeparatorToken"

ListLength(statement) ==
    IF statement.type = "FunctionDeclaration" THEN Len(statement.params)
    ELSE Len(statement.expression.arguments)

\* C21: every call argument list and every def parameter list with an empty
\* slot (nothing between `(` and `,`, between two `,`, or between `,` and
\* `)`) is rejected with a ParseError; only `()` yields zero arguments.
C21_EmptySlotsRejected ==
    (consumed = 1 /\ ListIsWholeLine(lineToken.tokens)) =>
        /\ HasEmptySlot(lineToken.tokens) => outcome.type = "ParseError"
        /\ (outcome = Null /\ ListLength(body[1]) = 0) =>
               Len(lineToken.tokens) = HeadLength(lineToken.tokens) + 1

----------------------------------------------------------------------------
(* Claims about the headers of const and def lines *)

\* the line read by the step is the lone keyword `const` at indent 0
ReadsLoneConst ==
    /\ PassesIndentCheck
    /\ lineToken'.indent = 0
    /\ Len(lineToken'.tokens) = 1
    /\ lineToken'.tokens[1].type = "ConstToken"

\* C22: a const line at indent 0 with no token after the keyword is rejected
\* with a ParseError located at the column and row of the const token.
C22_LoneConstIsSyntaxError ==
    [][ReadsLoneConst =>
          /\ outcome'.type = "ParseError"
          /\ outcome'.column = lineToken'.column
          /\ outcome'.row = lineToken'.tokens[1].row]_vars

IsOpening(token) == token.type \in {"ParentheseStartToken", "BracketStartToken"}

ClosingOf(token) ==
    IF token.type = "ParentheseStartToken" THEN "ParentheseEndToken" ELSE "BracketEndToken"

\* the tokens of the kind of tokens[i] that are open after token j, counted from i
RECURSIVE OpenCount(_, _, _)
OpenCount(tokens, i, j) ==
    IF j < i THEN 0
    ELSE OpenCount(tokens, i, j - 1)
            + (IF tokens[j].type = tokens[i].type THEN 1
               ELSE IF tokens[j].type = ClosingOf(tokens[i]) THEN -1 ELSE 0)

\* the opening tokens of the line that no later token of the line closes
Unclosed(tokens) ==
    {i \in 1..Len(tokens) :
        /\ IsOpening(tokens[i])
        /\ \A j \in i..Len(tokens) : OpenCount(tokens, i, j) > 0}

\* the line read by the step has an unclosed region, and is at an indent
\* its first token allows
ReadsUnclosedRegion ==
    /\ PassesIndentCheck
    /\ Unclosed(lineToken'.tokens) # {}
    /\ lineToken'.tokens[1].type \in {"DefToken", "ConstToken"} => lineToken'.indent = 0

\* C23: whenever a `(` or `[` has no matching close on its line (member
\* bracket, memory bracket, call, grouping, or the parameter list of def),
\* parse fails with a ParseError whose row is the row of that opening token.
C23_UnclosedRegionRow ==
    [][ReadsUnclosedRegion =>
          /\ outcome'.type = "ParseError"
          /\ \E i \in Unclosed(lineToken'.tokens) :
                outcome'.row = lineToken'.tokens[i].row]_vars

----------------------------------------------------------------------------
(* SpecLex: tokenise applied to a source of one line, put together from up *)
(* to MaxPieces pieces: keywords, a letter, an underscore, a digit, a      *)
(* blank, the characters of the two-character tokens, and the line comment *)
(* sign                                                                    *)

MaxPieces == 3

RECURSIVE PieceLines(_)
PieceLines(n) ==
    IF n = 0 THEN {<<>>}
    ELSE PieceLines(n - 1)
            \cup {text \o piece :
                     text \in PieceLines(n - 1),
                     piece \in {<<"i", "f">>, <<"d", "e", "f">>, <<"w", "h", "i", "l", "e">>,
                                <<"c", "o", "n", "s", "t">>,
                                <<"m", "e", "m", "o", "r", "y">>,
                                <<"a">>, <<"_">>, <<"1">>, <<" ">>, <<"-">>, <<">">>,
                                <<"<">>, <<"=">>, <<"!">>, <<"#">>}}

TokeniseLexLine ==
    /\ lineNo = 0
    /\ \E raw \in PieceLines(MaxPieces) : TokeniseLine(raw)
    /\ UNCHANGED <<exprVars, parseVars, emitVars>>

NextLex == TokeniseLexLine \/ TokeniseReturn

SpecLex == InitTok /\ [][NextLex]_vars

----------------------------------------------------------------------------
(* Claims about the tokens of one line *)

Keywords ==
    {<<"i", "f">>, <<"d", "e", "f">>, <<"w", "h", "i", "l", "e">>,
     <<"c", "o", "n", "s", "t">>, <<"m", "e", "m", "o", "r", "y">>}

KeywordToken(word) ==
    CASE word = <<"i", "f">> -> "IfToken"
      [] word = <<"d", "e", "f">> -> "DefToken"
      [] word = <<"w", "h", "i", "l", "e">> -> "WhileToken"
      [] word = <<"c", "o", "n", "s", "t">> -> "ConstToken"
      [] word = <<"m", "e", "m", "o", "r", "y">> -> "MemoryToken"

WordCharacters ==
    LowerCase \cup UpperCase \cup Digits \cup AboveLatin1 \cup {"@", "$", "?", "_", "'"}

\* the first position from p on (1-based) whose character is not in the set;
\* Len(text) + 1 when there is none
RECURSIVE RunEnd(_, _, _)
RunEnd(text, p, set) ==
    IF p > Len(text) \/ text[p] \notin set THEN p ELSE RunEnd(text, p + 1, set)

\* the tokens of text from position p on, read by longest match: a run of
\* digits, a run of word characters, `->`, `<=`, `>=`, `!=`, or one
\* character; a bare `!` ends the reading with its position
RECURSIVE Lex(_, _)
Lex(text, p) ==
    IF p > Len(text) \/ text[p] = "#" THEN [tokens |-> <<>>, bang |-> 0]
    ELSE LET c == text[p]
             next == IF p < Len(text) THEN text[p + 1] ELSE "EOL"
             after(token, q) ==
                 LET rest == Lex(text, q) IN
                 [rest EXCEPT !.tokens = <<token>> \o rest.tokens]
         IN IF c \in Digits
            THEN LET q == RunEnd(text, p, Digits) IN
                 after(Tok("NumericLiteralToken", SubSeq(text, p, q - 1), p), q)
            ELSE IF c \in WordCharacters
            THEN LET q == RunEnd(text, p, WordCharacters)
                     word == SubSeq(text, p, q - 1)
                 IN after(IF word \in Keywords THEN Tok(KeywordToken(word), <<>>, p)
                          ELSE Tok("IdentifierToken", word, p), q)
            ELSE IF c = "-" /\ next = ">" THEN after(Tok("AssignmentToken", <<>>, p), p + 2)
            ELSE IF c \in {"<", ">", "!"} /\ next = "="
            THEN after(Tok("OperatorToken", <<c, "=">>, p), p + 2)
            ELSE IF c = "!" THEN [tokens |-> <<>>, bang |-> p]
            ELSE IF c \in {"-", "<", ">", "="} THEN after(Tok("OperatorToken", <<c>>, p), p + 1)
            ELSE Lex(text, p + 1)

\* the tokens tokenise made of the one line
ProducedTokens == IF lineTokens = <<>> THEN <<>> ELSE lineTokens[1].tokens

IsWordToken(token) ==
    token.type \in {"IdentifierToken", "NumericLiteralToken", "IfToken", "DefToken",
                    "WhileToken", "ConstToken", "MemoryToken"}

\* the line has been read and no bare `!` stopped the reading
LineRead == line # Null /\ ~IsThrown(tokOutcome)

\* C24: outside comments every maximal run of identifier characters that
\* starts with a non-digit yields exactly one token, the keyword token when
\* the run is exactly memory, if, while, def or const and otherwise an
\* IdentifierToken carrying the run; every maximal run of digits at a token
\* start yields one NumericLiteralToken; no IdentifierToken value is empty,
\* starts with a digit, or equals a keyword; a run pending at the end of the
\* line is flushed.
C24_WordsAndLiterals ==
    LineRead =>
        /\ SelectSeq(ProducedTokens, IsWordToken)
              = SelectSeq(Lex(line.text, 1).tokens, IsWordToken)
        /\ \A i \in 1..Len(ProducedTokens) :
              ProducedTokens[i].type = "IdentifierToken" =>
                  /\ ProducedTokens[i].value # <<>>
                  /\ ProducedTokens[i].value[1] \notin Digits
                  /\ ProducedTokens[i].value \notin Keywords

\* a literal followed at once by a keyword that ends the line has been read
C24_Witness ==
    /\ LineRead
    /\ line.text = <<"1", "i", "f">>
    /\ Len(ProducedTokens) = 2
    /\ ProducedTokens[2].type = "IfToken"

\* C25: `-` immediately followed by `>` yields one AssignmentToken and
\* otherwise an Operator `-`; `<`, `>` or `!` immediately followed by `=`
\* yields one Operator `<=`, `>=` or `!=`; a lone `<` or `>` yields the
\* single-character Operator; a `!` followed by anything other than `=`, the
\* end of the line included, makes tokenise fail with an error located at
\* the column of the line and the row of the `!`; in every other case the
\* character that ended the decision is tokenised normally and not lost.
C25_TwoCharacterTokens ==
    line # Null =>
        LET reading == Lex(line.text, 1) IN
        IF reading.bang # 0
        THEN /\ tokOutcome.type = "ParseError"
             /\ tokOutcome.column = lineNo
             /\ tokOutcome.row = reading.bang
        ELSE /\ ~IsThrown(tokOutcome)
             /\ ProducedTokens = reading.tokens

\* `<` was ended by a `-` that went on to begin `->`
C25_Witness ==
    /\ LineRead
    /\ line.text = <<"<", "-", ">">>
    /\ Len(ProducedTokens) = 2
    /\ ProducedTokens[1] = Tok("OperatorToken", <<"<">>, 1)
    /\ ProducedTokens[2] = Tok("AssignmentToken", <<>>, 2)

----------------------------------------------------------------------------
(* Claims about the reading order of expressions *)

OperatorMark(value) == [type |-> "operator", value |-> value]

\* the operands and binary operators of a tree from left to right
RECURSIVE InOrder(_)
InOrder(tree) ==
    CASE tree.type = "BinaryExpression"
            -> InOrder(tree.left) \o <<OperatorMark(tree.operator)>> \o InOrder(tree.right)
      [] tree.type = "UnaryExpression" -> InOrder(tree.argument)
      [] tree.type = "MemberExpression" -> InOrder(tree.target) \o InOrder(tree.property)
      [] tree.type = "CallExpression"
            -> <<tree.callee>>
                  \o (IF Len(tree.arguments) = 0 THEN <<>> ELSE InOrder(tree.arguments[1]))
      [] OTHER -> <<tree>>

RECURSIVE LeftmostLeaf(_)
LeftmostLeaf(tree) ==
    CASE tree.type = "BinaryExpression" -> LeftmostLeaf(tree.left)
      [] tree.type = "UnaryExpression" -> LeftmostLeaf(tree.argument)
      [] tree.type = "MemberExpression" -> LeftmostLeaf(tree.target)
      [] tree.type = "CallExpression" -> tree.callee
      [] OTHER -> tree

\* token i is an operator between two operands, not a prefix operator
IsBinaryOperator(tokens, i) ==
    /\ tokens[i].type = "OperatorToken"
    /\ i > 1
    /\ IsOperand(tokens[i - 1]) \/ tokens[i - 1].type = "ParentheseEndToken"

\* the operands and binary operators of the tokens from token i on
RECURSIVE ReadingOrder(_, _)
ReadingOrder(tokens, i) ==
    IF i > Len(tokens) THEN <<>>
    ELSE (IF IsOperand(tokens[i]) THEN <<OperandNode(tokens[i])>>
          ELSE IF IsBinaryOperator(tokens, i) THEN <<OperatorMark(tokens[i].value)>>
          ELSE <<>>)
             \o ReadingOrder(tokens, i + 1)

FirstOperand(tokens) ==
    OperandNode(tokens[CHOOSE i \in 1..Len(tokens) :
                          /\ IsOperand(tokens[i])
                          /\ \A j \in 1..(i - 1) : ~IsOperand(tokens[j])])

\* C26: for every expression that parses, the in-order traversal of the
\* returned tree, grouping parentheses ignored, lists the operands and binary
\* operators in the order of the input tokens, and the leftmost operand of
\* the input is the leftmost leaf of the tree.
C26_ReadingOrderKept ==
    ExprReturned =>
        /\ InOrder(exprResult) = ReadingOrder(exprTokens, 1)
        /\ LeftmostLeaf(exprResult) = FirstOperand(exprTokens)

\* a tree the rotation has worked on twice: three binary operators, the
\* root no longer the first of them
C26_Witness ==
    /\ ExprReturned
    /\ exprTokens = WithRows(<<IdentifierA, OperatorPlus, IdentifierB, OperatorTimes,
                               IdentifierA, OperatorPlus, IdentifierB>>)
    /\ exprResult.type = "BinaryExpression"
    /\ exprResult.left.type = "BinaryExpression"
    /\ InOrder(exprResult) = <<Identifier(<<"a">>), OperatorMark(<<"+">>),
                               Identifier(<<"b">>), OperatorMark(<<"*">>),
                               Identifier(<<"a">>), OperatorMark(<<"+">>),
                               Identifier(<<"b">>)>>

----------------------------------------------------------------------------
(* Claims about lines without tokens *)

\* C27: a line that yields no tokens (white space only, comment only, or
\* wholly inside a block comment) updates the indent stack from its leading
\* white space as a line with tokens does: it pushes a new level, truncates
\* the stack, or makes tokenise fail with "<column>: Invalid indent space",
\* and so changes the indent of later lines.
C27_EmptyLinesMoveIndents ==
    [][(YieldsLine /\ ProducesNothing) =>
          /\ tokOutcome' = Null =>
                /\ Contains(indents, line'.space) =>
                      indents' = TruncatedAt(indents, line'.space)
                /\ ~Contains(indents, line'.space) => indents' = Append(indents, line'.space)
          /\ UnseenDedent = (tokOutcome' = ParseError(lineNo + 1, 0, "Invalid indent space"))
          /\ lineTokens' = lineTokens]_vars

\* a line of one blank pushed a level, and the line after it, at two blanks,
\* got indent 2
C27_Witness ==
    /\ lineNo = 2
    /\ indents = <<0, 1, 2>>
    /\ Len(lineTokens) = 1
    /\ lineTokens[1].column = 2
    /\ lineTokens[1].indent = 2

----------------------------------------------------------------------------
(* Claims about runs of prefix operators *)

\* the number of operator tokens the list begins with
RECURSIVE PrefixRun(_)
PrefixRun(tokens) ==
    IF Len(tokens) > 0 /\ Head(tokens).type = "OperatorToken"
    THEN 1 + PrefixRun(Tail(tokens))
    ELSE 0

\* the list begins with two or more prefix operators and an operand
HasPrefixRun(tokens) ==
    /\ PrefixRun(tokens) >= 2
    /\ PrefixRun(tokens) < Len(tokens)
    /\ IsOperand(tokens[PrefixRun(tokens) + 1])

\* the last operator of the run applied to the operand
LastApplied(operator, operand) ==
    IF operand.type = "IdentifierToken"
    THEN UnaryExpression(operator.value, Identifier(operand.value))
    ELSE NumericLiteral(SignedValue(operand.value, operator.value = <<"-">>))

\* C28: in a run of two or more prefix operators before an operand only the
\* last one is applied and the earlier ones are dropped without error: the
\* result is that of the same tokens without the earlier operators, so that
\* `- + a` gives Unary(+, a) and `- - 5` gives NumericLiteral(-5).
C28_LastPrefixOperatorWins ==
    (exprResult # Null /\ HasPrefixRun(exprTokens)) =>
        LET run == PrefixRun(exprTokens) IN
        /\ exprResult = parseExpression(1, SliceFrom(exprTokens, run - 1), Null)
        /\ (Len(exprTokens) = run + 1
              /\ FitsInt32(exprTokens[run + 1].value, exprTokens[run].value = <<"-">>)) =>
               exprResult = LastApplied(exprTokens[run], exprTokens[run + 1])

\* `- + a` has been parsed to Unary(+, a)
C28_Witness ==
    /\ exprTokens = WithRows(<<OperatorMinus, OperatorPlus, IdentifierA>>)
    /\ exprResult = UnaryExpression(<<"+">>, Identifier(<<"a">>))

----------------------------------------------------------------------------
(* SpecPipe: parse(source) of index.ts, tokenise and then parse, applied   *)
(* to sources of up to MaxSourceLines lines                                *)

\* parse called before tokenise has returned
CallParseEarly ==
    /\ statements = <<>>
    /\ statements' = <<Frame(<<>>)>>
    /\ UNCHANGED <<body, minIndent, maxIndent, lastLineToken, lineToken, consumed,
                   outcome, exprVars, tokVars, emitVars>>

\* return _parse(lineTokens): tokenise has returned its array, and the head
\* of parse sets up the statement stack
CallParse ==
    /\ tokOutcome.type = "Array"
    /\ statements = <<>>
    /\ statements' = <<Frame(<<>>)>>
    /\ UNCHANGED <<body, minIndent, maxIndent, lastLineToken, lineToken, consumed,
                   outcome, exprVars, tokVars, emitVars>>

\* the line loop of parse takes the next line-token of the array
ParseHandedLine ==
    /\ statements # <<>>
    /\ tokOutcome.type = "Array"
    /\ consumed < Len(tokOutcome.items)
    /\ ParseLine(tokOutcome.items[consumed + 1])
    /\ UNCHANGED <<exprVars, tokVars, emitVars>>

\* the array is exhausted
ParseHandedEnd ==
    /\ statements # <<>>
    /\ tokOutcome.type = "Array"
    /\ consumed = Len(tokOutcome.items)
    /\ ParseReturn

NextPipe ==
    TokeniseNextLine \/ TokeniseReturn \/ CallParse \/ ParseHandedLine \/ ParseHandedEnd

SpecPipe == InitTok /\ [][NextPipe]_vars

----------------------------------------------------------------------------
(* Claims about the pipeline *)

\* the line-token is one that parse rejects when it is the first it takes
RejectedByParse(lt) ==
    IsThrown(LoopBody([thrown |-> Null, body |-> <<>>, statements |-> <<Frame(<<>>)>>,
                       minIndent |-> Null, maxIndent |-> Null], lt).thrown)

\* C29: in parse(tokenise(source)) the whole source is tokenised before any
\* line is parsed: when the tokeniser finds an error on some line, that
\* error is the one reported and the parser is never started, also when an
\* earlier line holds an error of the parser.
C29_TokeniseFirst ==
    /\ [](IsThrown(tokOutcome) => ParseIdle)
    /\ [][(consumed' # consumed \/ outcome' # outcome) =>
             (tokOutcome.type = "Array" /\ UNCHANGED tokVars)]_vars

\* the first line is one the parser rejects, the second has a bare `!`: the
\* error of the `!` is the outcome and the parser has not run
C29_Witness ==
    /\ Len(lineTokens) = 1
    /\ RejectedByParse(lineTokens[1])
    /\ BareExclamation(tokOutcome)
    /\ tokOutcome.column = 2
    /\ ParseIdle

----------------------------------------------------------------------------
(* Claims about the tokens at the end of a line *)

\* the position of the parenthese that closes tokens[3] of a def line
HeaderEnd(tokens) ==
    CHOOSE j \in 3..Len(tokens) :
        /\ OpenCount(tokens, 3, j) = 0
        /\ \A k \in 3..(j - 1) : OpenCount(tokens, 3, k) > 0

\* a def line whose header is closed before the end of the line
HasTrailingTokens(lt) ==
    /\ Len(lt.tokens) >= 4
    /\ lt.tokens[1].type = "DefToken"
    /\ lt.tokens[2].type = "IdentifierToken"
    /\ lt.tokens[3].type = "ParentheseStartToken"
    /\ \E j \in 3..(Len(lt.tokens) - 1) : OpenCount(lt.tokens, 3, j) = 0

CutAfterHeader(lt) == [lt EXCEPT !.tokens = SubSeq(lt.tokens, 1, HeaderEnd(lt.tokens))]

\* the variables of parse are after the step what the loop body makes of lt
LeavesWhatLineLeaves(st) ==
    /\ body' = st.body
    /\ statements' = st.statements
    /\ minIndent' = st.minIndent
    /\ maxIndent' = st.maxIndent
    /\ outcome' = st.thrown

\* the tokens of a line that is not a def line from which its expression is read
ExpressionPart(lt) ==
    CASE lt.tokens[1].type \in {"IfToken", "WhileToken"} -> SubSeq(lt.tokens, 2, Len(lt.tokens))
      [] lt.tokens[1].type = "ConstToken" -> SubSeq(lt.tokens, 4, Len(lt.tokens))
      [] OTHER -> IF HasAssignment(lt.tokens)
                  THEN SubSeq(lt.tokens, FirstArrow(lt.tokens) + 2, Len(lt.tokens))
                  ELSE lt.tokens

\* a line of one of the forms that hold an expression, with what stands
\* before the expression well formed, at an indent its first token allows
HoldsExpression(lt) ==
    /\ lt.tokens[1].type \in {"IfToken", "WhileToken", "ConstToken",
                               "IdentifierToken", "MemoryToken"}
    /\ lt.tokens[1].type = "ConstToken" =>
          /\ lt.indent = 0
          /\ Len(lt.tokens) >= 3
          /\ lt.tokens[2].type = "IdentifierToken"
          /\ lt.tokens[3].type = "AssignmentToken"
    /\ (lt.tokens[1].type \in {"IdentifierToken", "MemoryToken"} /\ HasAssignment(lt.tokens))
          => SidesInOrder(lt)
    /\ ExpressionPart(lt) # <<>>

ExpressionOf(statement) ==
    CASE statement.type \in {"IfStatement", "WhileStatement"} -> statement.test
      [] statement.type \in {"ConstantStatement", "AssignmentStatement"} -> statement.right
      [] statement.type = "ExpressionStatement" -> statement.expression

\* the step fails with the error of the expression, or the statement it
\* makes holds the expression
MadeFrom(expression, lt) ==
    IF IsThrown(expression) THEN outcome' = expression
    ELSE outcome' = Null => ExpressionOf(NewestStatement(body', lt.indent)) = expression

\* C30: the tokens after the parenthese that closes the header of a def line
\* are ignored without error: at indent 0 the line makes the
\* FunctionDeclaration of the header alone and constrains the next line as
\* the header alone does; on if, while, const, assignment and call lines
\* every token up to the end of the line is parsed as part of the expression.
C30_TrailingTokens ==
    /\ [][(PassesIndentCheck /\ HasTrailingTokens(lineToken')) =>
             /\ LeavesWhatLineLeaves(
                    LoopBody([thrown |-> Null, body |-> body, statements |-> statements,
                              minIndent |-> minIndent, maxIndent |-> maxIndent],
                             CutAfterHeader(lineToken')))
             /\ lineToken'.indent = 0 =>
                   /\ outcome' = Null
                   /\ body'[Len(body')] = FunctionDeclaration(Identifier(<<"a">>),
                                                              <<Identifier(<<"b">>)>>)
                   /\ minIndent' = Number(1)]_vars
    /\ [][(/\ consumed' = consumed + 1
           /\ lastLineToken # Null
           /\ HasTrailingTokens(lastLineToken)) =>
             ((outcome' = InvalidIndent(lineToken')) <=> lineToken'.indent < 1)]_vars
    /\ [][(PassesIndentCheck /\ HoldsExpression(lineToken')) =>
             MadeFrom(parseExpression(lineToken'.column, ExpressionPart(lineToken'), Null),
                      lineToken')]_vars

\* `def a ( b ) ->` at indent 0 has opened a body and the call in it is
\* placed in the declaration
C30_Witness ==
    /\ Len(lineTokens) = 2
    /\ HasTrailingTokens(lineTokens[1])
    /\ lineTokens[1].tokens[6].type = "AssignmentToken"
    /\ lineTokens[2].indent = 1
    /\ outcome = Null
    /\ Len(body) = 1
    /\ body[1].type = "FunctionDeclaration"
    /\ Len(body[1].body) = 1
    /\ body[1].body[1].type = "ExpressionStatement"

====
